---- MODULE Spec2Model ----
(***************************************************************************)
(* Model of the devotional WhatsApp bot's stateful components:             *)
(*   - WhatsAppAuthService  (SQLite credential / key store)                *)
(*   - WhatsAppService      (session manager over the Baileys socket),     *)
(*                          SQLite-backed and file-backed                  *)
(*   - SchedulerService     (daily firing with the bounded retry loop)     *)
(*   - the HTTP handler's token check and the signal handlers              *)
(*   - RecipientsService    (SQLite table of the chats to send to)         *)
(* Each component has its own specifications; the variables of the other   *)
(* components stay unchanged in them:                                      *)
(*   StoreSpec, CredsSpec   the key store and the credential record        *)
(*   CorruptSpec            the store over rows that do not parse          *)
(*   SchedSpec, ThrowSpec   the scheduled firings and their retries, and   *)
(*                          with a callback that throws                    *)
(*   HttpSpec               /send and /scheduler/* behind checkAuth        *)
(*   ShutdownSpec           the scheduler and the session until SIGINT     *)
(*   BackendSpec            the two session managers side by side          *)
(*   TimeSpec, ManualSpec   the scheduler under every configured time of   *)
(*                          day, and with executeNow()                     *)
(*   Spec                   the session manager and the store it clears    *)
(*   SendSpec, PairSpec     the session manager with sendMessage(), and    *)
(*                          with the pairing codes                         *)
(*   FanoutSpec             sendToAll() over a session that opens and      *)
(*                          closes                                         *)
(*   SettleSpec             the firings with every started callback run    *)
(*                          to its end                                     *)
(*   DropSpec               the session left to the transport: drops and   *)
(*                          the reconnect timer                            *)
(*   KeySpec                keys.get and keys.set on one auth state        *)
(*   RecipientsSpec         the recipients table                           *)
(***************************************************************************)
EXTENDS Integers, Sequences, FiniteSets, TLC

(***************************************************************************)
(* Bounds of the model.                                                    *)
(***************************************************************************)
\* entries of one keys.set call
MaxBatch == 2
\* chat ids in the list of one sendToAll() call
MaxDests == 2
\* scheduled firings of the cron task that are followed
MaxFirings == 2
\* executeNow() calls in flight at once
MaxManual == 1
\* transport connections (makeWASocket calls) over a run
MaxSock == 2
\* reconnect timers (setTimeout(..., 2000)) pending at once
MaxTimers == 1
\* forceReconnect() calls inside their settle delay at once
MaxSettling == 1
\* pairing codes the transport emits over a run
MaxQr == 2
\* rows the recipients table is given ids for
MaxRecipients == 3

(***************************************************************************)
(* Values.  Strings are kept as the sequence of their ':'-separated        *)
(* segments, so that `${type}:${id}` and key_id.split(':') are computed    *)
(* as the code computes them.                                              *)
(***************************************************************************)
\* session ids (the partition key of both tables); OwnSession is config.sessionName
OwnSession == "devocional-bot"
OtherSession == "other-session"
SessionIds == {OwnSession, OtherSession}

\* key ids the transport uses; <<"a","b">> is the id "a:b"
KeyUniverse == { [type |-> "session", id |-> <<"a", "b">>],
                 [type |-> "pre-key", id |-> <<"a">>] }
Types == { k.type : k \in KeyUniverse }
Ids == { k.id : k \in KeyUniverse }

\* key values handed over by the transport (objects, hence truthy)
Values == {"v1", "v2"}
\* the tombstone of keys.set
NullVal == "null"
\* a property that is not there (undefined)
Absent == "absent"

\* credential records: FreshCreds is what initAuthCreds() returns
FreshCreds == "fresh"
PairedCreds == {"c1", "c2", "c3"}
CredVals == {FreshCreds} \cup PairedCreds

(***************************************************************************)
(* Serialisation (JSON.stringify / JSON.parse with BufferJSON) and rows.   *)
(***************************************************************************)
NoRow == [kind |-> "none", val |-> "none"]
GarbageRow == [kind |-> "garbage", val |-> "none"]
Stringify(v) == [kind |-> "json", val |-> v]
Parse(text) == IF text.kind = "json" THEN [ok |-> TRUE, val |-> text.val]
               ELSE [ok |-> FALSE, val |-> "none"]

\* `${type}:${id}`
KeyIdOf(type, id) == <<type>> \o id
AllKeyIds == { KeyIdOf(k.type, k.id) : k \in KeyUniverse }
\* row.key_id.split(':')
SplitColon(keyId) == keyId

\* if (x) ... on a cache entry or a parsed key
Truthy(v) == v \notin {Absent, NullVal}

\* str.trim() on a string kept as the sequence of its characters
RECURSIVE TrimLeft(_), TrimRight(_)
TrimLeft(str) == IF str # <<>> /\ Head(str) = " " THEN TrimLeft(Tail(str)) ELSE str
TrimRight(str) == IF str # <<>> /\ str[Len(str)] = " "
                  THEN TrimRight(SubSeq(str, 1, Len(str) - 1)) ELSE str
Trim(str) == TrimRight(TrimLeft(str))

VARIABLES
  dbCreds,        \* table whatsapp_creds: session id -> row
  dbKeys,         \* table whatsapp_keys: session id -> (key_id -> row)
  authReady,      \* useAuthState() has returned an auth state
  authCreds,      \* state.creds of that auth state
  keys,           \* the keys cache closed over by state.keys
  written,        \* history: per key, the last keys.set entry (here: on this auth state)
  lastLoad,       \* history: the last loadCreds call and its outcome
  savedSinceClear, \* history: saveCreds ran since the last clearAuth
  clearedClean,   \* history: clearAuth returned and nothing was saved or set since
  lastSaved,      \* history: per session id, what the last saveCreds since a clear saved
  sendTime,       \* SchedulerService.config.sendTime, a string of characters
  timezone,       \* SchedulerService.config.timezone
  lastStatus,     \* history: what the last getStatus() returned, and when
  task,           \* SchedulerService.task is set (the cron task is armed)
  armed,          \* cron tasks that cron.schedule started and nothing stopped
  cronExpression, \* the expression the armed cron task was scheduled with
  lastStart,      \* history: what the last start() since the last stop() did
  isRunning,      \* SchedulerService.isRunning
  fired,          \* number of firings of the cron task so far
  firing,         \* per firing: where its executeTask()/retryTask() stands
  manualInFlight, \* executeNow() calls awaiting onExecute
  lastManual,     \* what the last executeNow() returned
  sock,           \* WhatsAppService.sock: 0 is null, else the connection's number
  created,        \* number of connections makeWASocket has created
  live,           \* connections created and not yet ended
  isConnected,    \* WhatsAppService.isConnected
  timers,         \* pending setTimeout(() => connectToWhatsApp(), 2000)
  clearing,       \* forceReconnect() calls between close() and clearAuth(), by cause
  settling,       \* forceReconnect() calls inside the 1000 ms settle delay
  sockCreds,      \* state.creds of the auth state each connection was made with
  qrGen,          \* number of pairing codes emitted so far
  renders,        \* pairing codes whose QRCode.toDataURL() is pending
  currentQRCode,  \* DevotionalBot.currentQRCode: 0 is null, else the code's number
  qrWhileOpen,    \* history: onQRCodeGenerated ran while isConnected
  qrLog,          \* history: per pairing code, its callback runs, and whether a
                  \* forceReconnect() began after the code was emitted
  revokedPending, \* history: a loggedOut close arrived and clearAuth has not run since
  repair,         \* history: the re-pairing that follows a loggedOut close while open
  lastSend,       \* history: the last sendMessage() call
  madeBy,         \* history: the step that made the latest connection
  staleTimers,    \* history: reconnect timers that were pending at the last close()
  fanout,         \* the sendToAll() call under way: its list, position and counts
  fileSvc,        \* the file-backed WhatsAppService: its fields, as in Sess
  authDir,        \* tokens/baileys_auth_info, the auth directory of that service
  authToken,      \* process.env.AUTH_TOKEN
  groupChatId,    \* process.env.GROUP_CHAT_ID is set
  lastRequest,    \* history: the last HTTP request and what the handler did
  shutdown,       \* the SIGINT/SIGTERM handler: begun, the calls it made, exited
  recipientsTable, \* the recipients table and its trigger exist
  recipients,     \* table recipients: id -> row
  sqliteSequence, \* the largest id AUTOINCREMENT has given out
  lastCall        \* history: the last RecipientsService call and what it found

storeVars == <<dbCreds, dbKeys, authReady, authCreds, keys, written,
               lastLoad, savedSinceClear, clearedClean, lastSaved>>

schedVars == <<sendTime, timezone, lastStatus, task, armed, cronExpression, lastStart, isRunning,
               fired, firing, manualInFlight, lastManual>>

dbVars == <<dbCreds, dbKeys, lastSaved>>
authVars == <<authReady, authCreds, keys, written, lastLoad, savedSinceClear,
              clearedClean>>
connVars == <<sock, created, live, isConnected, timers, clearing, settling,
              sockCreds>>
pairVars == <<qrGen, renders, currentQRCode, qrWhileOpen, qrLog>>
sessHist == <<revokedPending, repair, lastSend, madeBy, staleTimers>>
fileVars == <<fileSvc, authDir>>
sessVars == <<connVars, pairVars, sessHist, fanout, fileVars>>

httpVars == <<authToken, groupChatId, lastRequest>>
recipVars == <<recipientsTable, recipients, sqliteSequence, lastCall>>

vars == <<storeVars, schedVars, sessVars, httpVars, shutdown, recipVars>>

\* what an operation of one component leaves alone in the others
StoreOnly == UNCHANGED <<schedVars, sessVars, httpVars, shutdown, recipVars>>
SchedOnly == UNCHANGED <<storeVars, sessVars, httpVars, shutdown, recipVars>>
\* what a step of the session manager leaves alone
BackendFrame == UNCHANGED <<authVars, schedVars, fanout, httpVars, shutdown,
                            recipVars>>
SessOnly == BackendFrame /\ UNCHANGED fileVars

(***************************************************************************)
(* SchedulerService                                                        *)
(***************************************************************************)
\* retryTask(): const maxRetries = 3
maxRetries == 3
\* retryTask(): const retryDelay = 5 * 60 * 1000 (ms); time passes in minutes
retryDelay == 5 * 60 * 1000
MsPerMinute == 60 * 1000
RetryDelayMinutes == retryDelay \div MsPerMinute

\* what `await this.config.onExecute()` can do
Outcomes == {"true", "false", "throw"}

\* a firing that has not happened yet.  okAt: the invocation that returned
\* true (0 the first attempt, k retry k, -1 none); minGap: the shortest time
\* waited before a retry (-1 before the first retry)
\* inFlight: onExecute() calls of the firing that have not settled; stopped:
\* stop() was called while the firing waited for a retry and its retryTask()
\* has not returned since
NoFiring == [pc |-> "none", attempt |-> 0, waited |-> 0, calls |-> 0,
             retries |-> 0, okAt |-> -1, minGap |-> -1, inFlight |-> 0,
             stopped |-> FALSE]

(* The configured time of day.  A time is the sequence of its characters;   *)
(* time.split(':') and parseInt(part || '0', 10) are computed as JavaScript *)
(* computes them.                                                          *)
Digits == <<"0", "1", "2", "3", "4", "5", "6", "7", "8", "9">>
IsDigit(ch) == \E i \in 1..Len(Digits) : Digits[i] = ch
DigitVal(ch) == (CHOOSE i \in 1..Len(Digits) : Digits[i] = ch) - 1

\* str.split(':')
RECURSIVE SplitTime(_, _, _)
SplitTime(str, part, i) ==
  IF i > Len(str) THEN <<part>>
  ELSE IF str[i] = ":" THEN <<part>> \o SplitTime(str, <<>>, i + 1)
  ELSE SplitTime(str, Append(part, str[i]), i + 1)

NaN == [nan |-> TRUE, val |-> 0]

\* the digits str starts with, read as a decimal number
RECURSIVE LeadingDigits(_, _, _)
LeadingDigits(str, i, acc) ==
  IF i <= Len(str) /\ IsDigit(str[i])
  THEN LeadingDigits(str, i + 1, 10 * acc + DigitVal(str[i]))
  ELSE [n |-> acc, read |-> i - 1]

\* parseInt(str, 10): leading white space skipped, an optional sign, then
\* the digits up to the first other character; NaN when there is no digit
ParseInt(str) ==
  LET body == TrimLeft(str)
      signed == body # <<>> /\ Head(body) \in {"-", "+"}
      rest == IF signed THEN Tail(body) ELSE body
      num == LeadingDigits(rest, 1, 0)
  IN IF num.read = 0 THEN NaN
     ELSE [nan |-> FALSE,
           val |-> IF signed /\ Head(body) = "-" THEN 0 - num.n ELSE num.n]

\* parts[k] || '0'
OrZero(part) == IF part = <<>> THEN <<"0">> ELSE part

ConvertThrows == [ok |-> FALSE, minute |-> 0, hour |-> 0]

\* convertTimeToCron(time): the cron expression `${minutes} ${hours} * * *`,
\* or the Error it throws
ConvertTimeToCron(time) ==
  LET parts == SplitTime(time, <<>>, 1)
  IN IF Len(parts) # 2 THEN ConvertThrows
     ELSE LET hours == ParseInt(OrZero(parts[1]))
              minutes == ParseInt(OrZero(parts[2]))
          IN IF hours.nan \/ minutes.nan \/ hours.val < 0 \/ hours.val > 23
                \/ minutes.val < 0 \/ minutes.val > 59
             THEN ConvertThrows
             ELSE [ok |-> TRUE, minute |-> minutes.val, hour |-> hours.val]

\* process.env.SEND_TIME || '06:00'
DefaultSendTime == <<"0", "6", ":", "0", "0">>

\* values of SEND_TIME an operator may have configured
SendTimes ==
  { DefaultSendTime,
    <<"2", "3", ":", "5", "9">>,
    <<":", "3", "0">>,
    <<"1", "2", ":">>,
    <<"1", "2", ":", "3", "x">>,
    <<" ", "6", ":", "0", "0">>,
    <<"2", "4", ":", "0", "0">>,
    <<"1", "2", ":", "6", "0">>,
    <<"-", "1", ":", "0", "0">>,
    <<"0", "6", "0", "0">>,
    <<"1", ":", "2", ":", "3">>,
    <<"x", "x", ":", "0", "0">> }

\* process.env.TIMEZONE || 'America/Sao_Paulo', and a name no runtime knows
DefaultTimezone == "America/Sao_Paulo"
Timezones == {DefaultTimezone, "Mars/Olympus"}

\* cron.schedule(expression, fn, {timezone}): with a timezone the runtime
\* does not know, the library throws or hands back a task that fails later
ScheduleOutcomes(zone) ==
  IF zone = DefaultTimezone THEN {"task"} ELSE {"task", "throws"}

\* a date and time of day, the day counted from some first day
Nows ==
  { [day |-> 1, hour |-> 0, minute |-> 0], [day |-> 1, hour |-> 5, minute |-> 59],
    [day |-> 1, hour |-> 6, minute |-> 0], [day |-> 1, hour |-> 23, minute |-> 59] }

\* getStatus() has not been called
NoStatus ==
  [asked |-> FALSE, now |-> [day |-> 0, hour |-> 0, minute |-> 0],
   running |-> FALSE,
   nextExecution |-> [defined |-> FALSE, day |-> 0, hour |-> 0, minute |-> 0]]

\* the state the scheduler is constructed in
SchedIdleOver(time, zone) ==
  /\ sendTime = time
  /\ timezone = zone
  /\ lastStatus = NoStatus
  /\ task = FALSE
  /\ armed = 0
  /\ cronExpression = ConvertThrows
  /\ lastStart = "none"
  /\ isRunning = FALSE
  /\ fired = 0
  /\ firing = [f \in 1..MaxFirings |-> NoFiring]
  /\ manualInFlight = 0
  /\ lastManual = "none"

SchedIdleWith(time) == SchedIdleOver(time, DefaultTimezone)

SchedIdle == SchedIdleWith(DefaultSendTime)

RetryLoopAfter_IgnoreSuccess(outcome, attempt) ==
  IF attempt < maxRetries THEN "wait" ELSE "done"

\* retryTask(), after retry number `attempt` returned or threw: return on
\* success, else the next iteration of the for loop, else fall out of it
RetryLoopAfter(outcome, attempt) ==
  IF outcome = "true" THEN "done"
  ELSE IF attempt < maxRetries THEN "wait" ELSE "done"

ExecuteTaskAfter_RetryAfterSuccess(outcome) ==
  IF 1 <= maxRetries THEN "wait" ELSE "done"

ExecuteTaskAfter_ThrowEscapes(outcome) ==
  IF outcome \in {"true", "throw"} THEN "done"
  ELSE IF 1 <= maxRetries THEN "wait" ELSE "done"

\* executeTask(), after the first onExecute() returned or threw
ExecuteTaskAfter(outcome) ==
  IF outcome = "true" THEN "done"
  ELSE IF 1 <= maxRetries THEN "wait" ELSE "done"

StartIsNoOp_Never == FALSE

\* start(): if (this.isRunning) return
StartIsNoOp == isRunning

\* start(): returns at once when running; else convertTimeToCron (which may
\* throw out of start()), cron.schedule, isRunning = true
StartCall ==
  /\ \E scheduled \in ScheduleOutcomes(timezone) :
     IF StartIsNoOp
     THEN /\ lastStart' = "noop"
          /\ UNCHANGED <<task, armed, cronExpression, isRunning>>
     ELSE IF ~ConvertTimeToCron(sendTime).ok \/ scheduled = "throws"
     THEN /\ lastStart' = "threw"
          /\ UNCHANGED <<task, armed, cronExpression, isRunning>>
     ELSE /\ lastStart' = "armed"
          /\ task' = TRUE
          /\ armed' = armed + 1
          /\ cronExpression' = ConvertTimeToCron(sendTime)
          /\ isRunning' = TRUE
  /\ UNCHANGED <<sendTime, timezone, lastStatus, fired, firing, manualInFlight, lastManual>>

Start ==
  /\ StartCall
  /\ SchedOnly

TaskStop_LeavesArmed(tasks) == tasks

\* this.task.stop(): the cron task is disarmed
TaskStop(tasks) == tasks - 1

\* stop(): this.task.stop() and task = null when there is a task,
\* isRunning = false; a retryTask() loop under way is not touched
StopCall ==
  /\ task' = FALSE
  /\ armed' = IF task THEN TaskStop(armed) ELSE armed
  /\ cronExpression' = IF task THEN ConvertThrows ELSE cronExpression
  /\ isRunning' = FALSE
  /\ lastStart' = "none"
  /\ firing' = [f \in 1..MaxFirings |->
       IF firing[f].pc = "wait" THEN [firing[f] EXCEPT !.stopped = TRUE]
       ELSE firing[f]]
  /\ UNCHANGED <<sendTime, timezone, lastStatus, fired, manualInFlight, lastManual>>

Stop ==
  /\ StopCall
  /\ SchedOnly

\* the cron task fires: executeTask() runs up to `await onExecute()`
CronFire ==
  /\ task
  /\ fired < MaxFirings
  /\ fired' = fired + 1
  /\ firing' = [firing EXCEPT ![fired + 1] =
                  [NoFiring EXCEPT !.pc = "first", !.calls = 1, !.inFlight = 1]]
  /\ UNCHANGED <<sendTime, timezone, lastStatus, task, armed, cronExpression, lastStart, isRunning,
                 manualInFlight, lastManual>>
  /\ SchedOnly

\* executeTask(): the first onExecute() returns or throws
ExecuteReturns(f, outcome) ==
  /\ firing[f].pc = "first"
  /\ firing' = [firing EXCEPT ![f] =
       IF ExecuteTaskAfter(outcome) = "done"
       THEN [@ EXCEPT !.pc = "done", !.inFlight = @ - 1,
                      !.okAt = IF outcome = "true" THEN 0 ELSE -1]
       ELSE [@ EXCEPT !.pc = "wait", !.inFlight = @ - 1, !.attempt = 1,
                      !.waited = 0,
                      !.okAt = IF outcome = "true" THEN 0 ELSE -1]]
  /\ UNCHANGED <<sendTime, timezone, lastStatus, task, armed, cronExpression, lastStart, isRunning,
                 fired, manualInFlight, lastManual>>
  /\ SchedOnly

\* a minute passes for every retry timer that has not run out
Tick ==
  /\ \E f \in 1..MaxFirings :
       firing[f].pc = "wait" /\ firing[f].waited < RetryDelayMinutes
  /\ firing' = [f \in 1..MaxFirings |->
       IF firing[f].pc = "wait" /\ firing[f].waited < RetryDelayMinutes
       THEN [firing[f] EXCEPT !.waited = @ + 1] ELSE firing[f]]
  /\ UNCHANGED <<sendTime, timezone, lastStatus, task, armed, cronExpression, lastStart, isRunning,
                 fired, manualInFlight, lastManual>>
  /\ SchedOnly

RetryTimer_NoAwait(f) ==
  /\ firing[f].pc \in {"first", "wait", "retry"}
  /\ firing[f].retries < maxRetries
  /\ firing' = [firing EXCEPT ![f] =
       [@ EXCEPT !.pc = "retry", !.calls = @ + 1, !.retries = @ + 1,
                 !.inFlight = @ + 1, !.waited = RetryDelayMinutes,
                 !.minGap = RetryDelayMinutes]]
  /\ UNCHANGED <<sendTime, timezone, lastStatus, task, armed, cronExpression, lastStart, isRunning,
                 fired, manualInFlight, lastManual>>
  /\ SchedOnly

\* retryTask(): the setTimeout(resolve, retryDelay) runs out, onExecute() is called
RetryTimer(f) ==
  /\ firing[f].pc = "wait"
  /\ firing[f].waited >= RetryDelayMinutes
  /\ firing' = [firing EXCEPT ![f] =
       [@ EXCEPT !.pc = "retry", !.calls = @ + 1, !.retries = @ + 1,
                 !.inFlight = @ + 1,
                 !.minGap = IF firing[f].retries = 0 \/ firing[f].waited < @
                            THEN firing[f].waited ELSE @]]
  /\ UNCHANGED <<sendTime, timezone, lastStatus, task, armed, cronExpression, lastStart, isRunning,
                 fired, manualInFlight, lastManual>>
  /\ SchedOnly

\* retryTask(): onExecute() of retry number firing[f].attempt returns or throws
RetryReturns(f, outcome) ==
  /\ firing[f].pc = "retry"
  /\ firing' = [firing EXCEPT ![f] =
       IF RetryLoopAfter(outcome, firing[f].attempt) = "done"
       THEN [@ EXCEPT !.pc = "done", !.inFlight = @ - 1, !.stopped = FALSE,
                      !.okAt = IF outcome = "true" /\ @ = -1
                               THEN firing[f].attempt ELSE @]
       ELSE [@ EXCEPT !.pc = "wait", !.inFlight = @ - 1, !.attempt = @ + 1,
                      !.waited = 0,
                      !.okAt = IF outcome = "true" /\ @ = -1
                               THEN firing[f].attempt ELSE @]]
  /\ UNCHANGED <<sendTime, timezone, lastStatus, task, armed, cronExpression, lastStart, isRunning,
                 fired, manualInFlight, lastManual>>
  /\ SchedOnly

\* getNextExecutionTime() at the time `now`: 'N/A' (day 0) without a task
\* or when convertTimeToCron throws; else the day after `now`
\* (setDate(getDate() + 1)), at the configured hours and minutes
GetNextExecutionTime(now) ==
  IF ~task \/ ~ConvertTimeToCron(sendTime).ok
  THEN [defined |-> TRUE, day |-> 0, hour |-> 0, minute |-> 0]
  ELSE [defined |-> TRUE, day |-> now.day + 1,
        hour |-> ConvertTimeToCron(sendTime).hour,
        minute |-> ConvertTimeToCron(sendTime).minute]

\* getStatus() called at the time `now`
GetStatus(now) ==
  /\ lastStatus' = [asked |-> TRUE, now |-> now, running |-> isRunning,
                    nextExecution |-> IF task THEN GetNextExecutionTime(now)
                                      ELSE NoStatus.nextExecution]
  /\ UNCHANGED <<sendTime, timezone, task, armed, cronExpression, lastStart,
                 isRunning, fired, firing, manualInFlight, lastManual>>
  /\ SchedOnly

\* executeNow(): return await this.config.onExecute(), whatever it gives
ExecuteNowAfter(outcome) == "done"

\* executeNow(): calls onExecute() and hands its result back
ExecuteNow ==
  /\ manualInFlight < MaxManual
  /\ manualInFlight' = manualInFlight + 1
  /\ UNCHANGED <<sendTime, timezone, lastStatus, task, armed, cronExpression, lastStart, isRunning,
                 fired, firing, lastManual>>
  /\ SchedOnly

ExecuteNowReturns(outcome) ==
  /\ manualInFlight > 0
  /\ manualInFlight' = manualInFlight - 1
  /\ lastManual' = outcome
  /\ UNCHANGED <<sendTime, timezone, lastStatus, task, armed, cronExpression, lastStart, isRunning,
                 fired, firing>>
  /\ SchedOnly

(***************************************************************************)
(* WhatsAppAuthService                                                     *)
(***************************************************************************)
LoadCreds_ErrorWhenMissing(creds, sid) ==
  IF creds[sid].kind # "none"
  THEN IF Parse(creds[sid]).ok
       THEN [error |-> FALSE, creds |-> Parse(creds[sid]).val]
       ELSE [error |-> FALSE, creds |-> FreshCreds]
  ELSE [error |-> TRUE, creds |-> Absent]

\* loadCreds(): the row parsed, or initAuthCreds() when missing or unparsable
LoadCreds(creds, sid) ==
  IF creds[sid].kind # "none"
  THEN IF Parse(creds[sid]).ok
       THEN [error |-> FALSE, creds |-> Parse(creds[sid]).val]
       ELSE [error |-> FALSE, creds |-> FreshCreds]
  ELSE [error |-> FALSE, creds |-> FreshCreds]

SaveCreds_InsertOnce(creds, sid, c) ==
  IF creds[sid].kind = "none" THEN [creds EXCEPT ![sid] = Stringify(c)] ELSE creds

\* saveCreds(creds): INSERT OR REPLACE
SaveCreds(creds, sid, c) == [creds EXCEPT ![sid] = Stringify(c)]

\* The caches loadKeys() can return.  Every row is filed under the first two
\* segments of its key_id; rows that collide on them overwrite each other in
\* the order the SELECT (which has no ORDER BY) yields them.
LoadKeys(rows) ==
  { c \in [Types -> [Ids -> Values \cup {Absent}]] :
      \A t \in Types, i \in Ids :
        LET cands == { k \in AllKeyIds : /\ rows[k].kind # "none"
                                         /\ Parse(rows[k]).ok
                                         /\ SplitColon(k)[1] = t
                                         /\ <<SplitColon(k)[2]>> = i }
        IN IF cands = {} THEN c[t][i] = Absent
           ELSE \E k \in cands : c[t][i] = Parse(rows[k]).val }

GetKey_NoCatch(rows, type, id) ==
  LET keyId == KeyIdOf(type, id)
  IN IF keyId \in AllKeyIds /\ rows[keyId].kind # "none"
     THEN IF Parse(rows[keyId]).ok THEN Parse(rows[keyId]).val ELSE "SyntaxError"
     ELSE NullVal

\* getKey(type, id): the parsed row, or null
GetKey(rows, type, id) ==
  LET keyId == KeyIdOf(type, id)
  IN IF keyId \in AllKeyIds /\ rows[keyId].kind # "none"
     THEN IF Parse(rows[keyId]).ok THEN Parse(rows[keyId]).val ELSE NullVal
     ELSE NullVal

\* saveKey / removeKey
SaveKey(rows, type, id, value) ==
  [rows EXCEPT ![KeyIdOf(type, id)] = Stringify(value)]
RemoveKey(rows, type, id) == [rows EXCEPT ![KeyIdOf(type, id)] = NoRow]

\* keys.get for one id: the cache entry when truthy, else the database
GetOne(cache, rows, type, id) ==
  IF Truthy(cache[type][id]) THEN cache[type][id]
  ELSE IF Truthy(GetKey(rows, type, id)) THEN GetKey(rows, type, id)
  ELSE Absent

\* keys.get(type, ids): result (Absent = id omitted) and the cache it leaves
KeysGetResult(cache, rows, type, ids) ==
  [i \in ids |-> GetOne(cache, rows, type, i)]
KeysGetCache(cache, rows, type, ids) ==
  [cache EXCEPT ![type] =
     [i \in Ids |-> IF i \in ids /\ ~Truthy(cache[type][i])
                       /\ Truthy(GetKey(rows, type, i))
                    THEN GetKey(rows, type, i) ELSE cache[type][i]]]

\* One entry of keys.set: cache first, then the database; a tombstone is
\* removed from the database and then from the cache.  fails: the database
\* statement of this entry throws.
SetEntry_KeepTombstone(st, e, fails) ==
  LET k1 == [st.keys EXCEPT ![e.type][e.id] = e.value]
  IN IF fails THEN [keys |-> k1, rows |-> st.rows, threw |-> TRUE]
     ELSE IF e.value = NullVal
     THEN [keys |-> [k1 EXCEPT ![e.type][e.id] = Absent],
           rows |-> st.rows, threw |-> FALSE]
     ELSE [keys |-> k1, rows |-> SaveKey(st.rows, e.type, e.id, e.value),
           threw |-> FALSE]

SetEntry(st, e, fails) ==
  LET k1 == [st.keys EXCEPT ![e.type][e.id] = e.value]
  IN IF fails THEN [keys |-> k1, rows |-> st.rows, threw |-> TRUE]
     ELSE IF e.value = NullVal
     THEN [keys |-> [k1 EXCEPT ![e.type][e.id] = Absent],
           rows |-> RemoveKey(st.rows, e.type, e.id), threw |-> FALSE]
     ELSE [keys |-> k1, rows |-> SaveKey(st.rows, e.type, e.id, e.value),
           threw |-> FALSE]

\* keys.set(data): the entries in iteration order, until one throws
RECURSIVE SetEntries(_, _, _, _)
SetEntries(st, data, i, failAt) ==
  IF i > Len(data) \/ st.threw THEN st
  ELSE SetEntries(SetEntry(st, data[i], i = failAt), data, i + 1, failAt)

\* clearAuth(): two DELETEs; failAt = 1 or 2: that statement throws
ClearAuthCreds(creds, sid, failAt) ==
  IF failAt = 1 THEN creds ELSE [creds EXCEPT ![sid] = NoRow]
ClearAuthKeys(allKeys, sid, failAt) ==
  IF failAt \in {1, 2} THEN allKeys
  ELSE [allKeys EXCEPT ![sid] = [k \in AllKeyIds |-> NoRow]]

(***************************************************************************)
(* Inputs of keys.set: an object category -> (id -> value | null), as the  *)
(* sequence of its entries in iteration order (entries of one category     *)
(* are adjacent, no (category, id) twice).                                 *)
(***************************************************************************)
SetEntryInputs ==
  { [type |-> k.type, id |-> k.id, value |-> v] :
      k \in KeyUniverse, v \in Values \cup {NullVal} }

SameKey(e, f) == e.type = f.type /\ e.id = f.id

WellFormedBatch(data) ==
  /\ \A i, j \in 1..Len(data) : i # j => ~SameKey(data[i], data[j])
  /\ \A i, j, m \in 1..Len(data) :
       (i < j /\ j < m /\ data[i].type = data[m].type) => data[j].type = data[i].type

SetBatches ==
  { data \in UNION { [1..n -> SetEntryInputs] : n \in 1..MaxBatch } :
      WellFormedBatch(data) }

NoWrite == [last |-> "none", here |-> FALSE, hadValue |-> FALSE]
NoLoad == [called |-> FALSE, saved |-> FALSE, row |-> NoRow, error |-> FALSE,
           creds |-> Absent]

\* history of one keys.set call
RECURSIVE WrittenAfter(_, _, _, _)
WrittenAfter(w, data, i, failAt) ==
  IF i > Len(data) THEN w
  ELSE LET e == data[i]
       IN IF i = failAt
          THEN [w EXCEPT ![e.type][e.id] =
                  [last |-> "failed", here |-> TRUE, hadValue |-> @.hadValue]]
          ELSE WrittenAfter(
                 [w EXCEPT ![e.type][e.id] =
                    [last |-> e.value, here |-> TRUE,
                     hadValue |-> (@.here /\ @.hadValue) \/ e.value \in Values]],
                 data, i + 1, failAt)

(***************************************************************************)
(* Store actions (one WhatsAppAuthService instance, session OwnSession).   *)
(***************************************************************************)
\* useAuthState(): loadCreds, loadKeys, a new closure over both
UseAuthState ==
  /\ \E c \in LoadKeys(dbKeys[OwnSession]) : keys' = c
  /\ authCreds' = LoadCreds(dbCreds, OwnSession).creds
  /\ lastLoad' = [called |-> TRUE, saved |-> savedSinceClear,
                  row |-> dbCreds[OwnSession],
                  error |-> LoadCreds(dbCreds, OwnSession).error,
                  creds |-> LoadCreds(dbCreds, OwnSession).creds]
  /\ authReady' = TRUE
  /\ written' = [t \in Types |-> [i \in Ids |->
                   [written[t][i] EXCEPT !.here = FALSE, !.hadValue = FALSE]]]
  /\ UNCHANGED <<dbCreds, dbKeys, savedSinceClear>>
  /\ UNCHANGED <<clearedClean, lastSaved>>
  /\ StoreOnly

\* state.keys.get(type, ids)
KeysGet(type, ids) ==
  /\ authReady
  /\ keys' = KeysGetCache(keys, dbKeys[OwnSession], type, ids)
  /\ UNCHANGED <<dbCreds, dbKeys, authReady, authCreds, written, lastLoad,
                 savedSinceClear>>
  /\ UNCHANGED <<clearedClean, lastSaved>>
  /\ StoreOnly

\* state.keys.set(data); failAt = 0: no statement throws
KeysSet(data, failAt) ==
  /\ authReady
  /\ LET st == SetEntries([keys |-> keys, rows |-> dbKeys[OwnSession],
                           threw |-> FALSE], data, 1, failAt)
     IN /\ keys' = st.keys
        /\ dbKeys' = [dbKeys EXCEPT ![OwnSession] = st.rows]
  /\ written' = WrittenAfter(written, data, 1, failAt)
  /\ UNCHANGED <<dbCreds, authReady, authCreds, lastLoad, savedSinceClear>>
  /\ clearedClean' = (clearedClean /\ data = <<>>)
  /\ UNCHANGED lastSaved
  /\ StoreOnly

\* the transport changes state.creds and emits creds.update -> saveCreds()
CredsUpdate(c) ==
  /\ authReady
  /\ authCreds' = c
  /\ dbCreds' = SaveCreds(dbCreds, OwnSession, c)
  /\ savedSinceClear' = TRUE
  /\ UNCHANGED <<dbKeys, authReady, keys, written, lastLoad>>
  /\ clearedClean' = FALSE
  /\ lastSaved' = [lastSaved EXCEPT ![OwnSession] = c]
  /\ StoreOnly

\* saveCreds() of the service instance of another session id
OtherSessionSave(c) ==
  /\ dbCreds' = SaveCreds(dbCreds, OtherSession, c)
  /\ UNCHANGED <<dbKeys, authReady, authCreds, keys, written, lastLoad,
                 savedSinceClear>>
  /\ UNCHANGED clearedClean
  /\ lastSaved' = [lastSaved EXCEPT ![OtherSession] = c]
  /\ StoreOnly

\* history: a clearAuth() whose first DELETE ran leaves nothing saved
LastSavedAfterClear(failAt) ==
  IF failAt = 1 THEN lastSaved ELSE [lastSaved EXCEPT ![OwnSession] = Absent]

\* clearAuth()
ClearAuth(failAt) ==
  /\ dbCreds' = ClearAuthCreds(dbCreds, OwnSession, failAt)
  /\ dbKeys' = ClearAuthKeys(dbKeys, OwnSession, failAt)
  /\ savedSinceClear' = (savedSinceClear /\ failAt = 1)
  /\ UNCHANGED <<authReady, authCreds, keys, written, lastLoad>>
  /\ clearedClean' = (failAt = 0)
  /\ lastSaved' = LastSavedAfterClear(failAt)
  /\ StoreOnly

(***************************************************************************)
(* WhatsAppService (the session manager over the Baileys socket)           *)
(*                                                                         *)
(* A step is what runs between two turns of the event loop.  Awaits on     *)
(* functions that never yield to the event loop (useAuthState, close,      *)
(* clearAuth on the synchronous bun:sqlite) resolve as microtasks, so      *)
(* connectToWhatsApp() and reconnect() are single steps.  forceReconnect() *)
(* is kept in three: close(), then clearAuth() (while a call stands        *)
(* between the two nothing else runs), then initialize() after the settle  *)
(* delay.  An ended connection emits nothing more.                         *)
(***************************************************************************)
\* lastDisconnect.error.output.statusCode of a close the transport reports
StatusCodes == {"loggedOut", "connectionClosed", "undefined"}
\* who starts forceReconnect(): the operator or the close handler
ForceCauses == StatusCodes \cup {"operator"}
\* what sock.end(undefined) does to a live connection: ends it and emits
\* connection.update {connection: 'close'} to the handler on the way, ends
\* it without the event, or throws before the connection is down
EndOutcomes == {"emit", "quiet", "throw"}

NoRepair == [phase |-> "none", sock |-> 0]
NoSend == [called |-> FALSE, open |-> FALSE, invoked |-> FALSE,
           accepted |-> FALSE, result |-> FALSE, okBefore |-> FALSE,
           completion |-> "none", transportCalls |-> 0]
\* no sendToAll() has been called
NoFanout == [pc |-> "idle", dests |-> <<>>, i |-> 0, started |-> <<>>,
             results |-> <<>>, success |-> 0, failures |-> 0]

\* no HTTP request has been handled
NoRequest == [route |-> "none",
              header |-> [present |-> FALSE, scheme |-> "", rest |-> ""],
              query |-> "null",
              status |-> 0, sendTriggered |-> FALSE, disclosed |-> FALSE,
              schedulerCalled |-> FALSE]

\* connections the run of automatic reconnects may make
MaxConn == MaxSock + 1

\* the state the service is constructed in
SessIdle ==
  /\ sock = 0
  /\ created = 0
  /\ live = {}
  /\ isConnected = FALSE
  /\ timers = 0
  /\ clearing = <<>>
  /\ settling = 0
  /\ sockCreds = [c \in 1..MaxConn |-> Absent]
  /\ qrGen = 0
  /\ renders = {}
  /\ currentQRCode = 0
  /\ qrWhileOpen = FALSE
  /\ qrLog = [code \in 1..MaxQr |-> [fired |-> 0, stale |-> FALSE]]
  /\ revokedPending = FALSE
  /\ repair = NoRepair
  /\ lastSend = NoSend
  /\ madeBy = "none"
  /\ staleTimers = 0
  /\ fanout = NoFanout

(***************************************************************************)
(* RecipientsService: the recipients table of data/recipients.db.          *)
(***************************************************************************)
\* the arguments the calls are made with
ChatIdArgs == {<<>>, <<" ">>, <<"a">>, <<" ", "a">>, <<"b", " ">>}
NameArgs == {<<>>, <<" ">>, <<"n", " ">>}
RecipientTypes == {"group", "person"}
TypeArgs == RecipientTypes \cup {"channel"}
\* the ids the table can hold, and one it never holds
RowIds == 1..MaxRecipients
IdArgs == 1..(MaxRecipients + 1)

\* no row with that id
NoRecipient == [chatId |-> <<>>, name |-> <<>>, type |-> "none"]

\* no call has been made
NoCall == [op |-> "none", id |-> 0, threw |-> FALSE, returned |-> FALSE,
           before |-> [i \in RowIds |-> NoRecipient]]

\* the service as constructed: the database file is open, the table is not
\* made yet
RecipientsIdle ==
  /\ recipientsTable = FALSE
  /\ recipients = [i \in RowIds |-> NoRecipient]
  /\ sqliteSequence = 0
  /\ lastCall = NoCall

\* the ids of the stored rows
Stored(rows) == { i \in RowIds : rows[i] # NoRecipient }

\* the first argument check that fails, or "ok"
ArgCheck(chatId, name, type) ==
  IF Trim(chatId) = <<>> THEN "chatId is required"
  ELSE IF Trim(name) = <<>> THEN "name is required"
  ELSE IF type \notin RecipientTypes THEN "type must be group or person"
  ELSE "ok"

\* chat_id TEXT NOT NULL UNIQUE: another row holds the chat id
UniqueFails(rows, id, chatId) ==
  \E i \in Stored(rows) : i # id /\ rows[i].chatId = chatId

\* the counts Statement.run() can report as `changes` for a statement that
\* changed stmtRows rows itself and triggerRows rows through triggers: the
\* count of the statement alone (sqlite3_changes), or the growth of the
\* connection's total (sqlite3_total_changes), which includes the triggers'
RunChanges(stmtRows, triggerRows) == {stmtRows, stmtRows + triggerRows}

\* the rows the trigger recipients_update_timestamp rewrites after an
\* UPDATE of one row
TriggerRows == 1

\* a call that threw, or returned, with the table as it found it
CallRecord(op, id, threw, returned) ==
  [op |-> op, id |-> id, threw |-> threw, returned |-> returned,
   before |-> recipients]

\* initialize(): CREATE TABLE IF NOT EXISTS, CREATE TRIGGER IF NOT EXISTS
RecipientsInitialize ==
  /\ recipientsTable' = TRUE
  /\ lastCall' = CallRecord("initialize", 0, FALSE, FALSE)
  /\ UNCHANGED <<recipients, sqliteSequence>>

\* create(chatId, name, type)
RecipientsCreate(chatId, name, type) ==
  LET id == sqliteSequence + 1
      inserts == /\ ArgCheck(chatId, name, type) = "ok"
                 /\ recipientsTable
                 /\ ~UniqueFails(recipients, 0, Trim(chatId))
  IN /\ inserts => id \in RowIds
     /\ IF inserts
        THEN /\ recipients' = [recipients EXCEPT ![id] =
                                 [chatId |-> Trim(chatId), name |-> Trim(name),
                                  type |-> type]]
             /\ sqliteSequence' = id
             /\ \E changes \in RunChanges(1, 0) :
                  lastCall' = CallRecord("create", id, changes # 1, changes = 1)
        ELSE /\ lastCall' = CallRecord("create", 0, TRUE, FALSE)
             /\ UNCHANGED <<recipients, sqliteSequence>>
     /\ UNCHANGED recipientsTable

\* update(id, chatId, name, type)
RecipientsUpdate(id, chatId, name, type) ==
  LET matched == id \in Stored(recipients)
      runs == /\ ArgCheck(chatId, name, type) = "ok"
              /\ recipientsTable
              /\ ~(matched /\ UniqueFails(recipients, id, Trim(chatId)))
  IN /\ IF runs /\ matched
        THEN /\ recipients' = [recipients EXCEPT ![id] =
                                 [chatId |-> Trim(chatId), name |-> Trim(name),
                                  type |-> type]]
             /\ \E changes \in RunChanges(1, TriggerRows) :
                  lastCall' = CallRecord("update", id, changes # 1, changes = 1)
        ELSE /\ lastCall' = CallRecord("update", id, TRUE, FALSE)
             /\ UNCHANGED recipients
     /\ UNCHANGED <<recipientsTable, sqliteSequence>>

\* delete(id)
RecipientsDelete(id) ==
  LET matched == id \in Stored(recipients)
  IN /\ IF ~recipientsTable
        THEN /\ lastCall' = CallRecord("delete", id, TRUE, FALSE)
             /\ UNCHANGED recipients
        ELSE /\ recipients' = [i \in RowIds |->
                                 IF i = id THEN NoRecipient ELSE recipients[i]]
             /\ \E changes \in RunChanges(IF matched THEN 1 ELSE 0, 0) :
                  lastCall' = CallRecord("delete", id, FALSE, changes = 1)
     /\ UNCHANGED <<recipientsTable, sqliteSequence>>

\* no shutdown signal has arrived
NotShutDown == [begun |-> FALSE, calls |-> <<>>, exited |-> FALSE]

\* the environment the process was started in, no request handled and no
\* signal received yet
EnvIdle(token, chat) ==
  /\ authToken = token
  /\ groupChatId = chat
  /\ lastRequest = NoRequest
  /\ shutdown = NotShutDown
  /\ RecipientsIdle

\* the auth directory: not there, or there with the creds it holds (Absent:
\* no creds.json in it)
NoDir == [exists |-> FALSE, creds |-> Absent]

\* the file-backed service as constructed
FileSvcIdle ==
  [sock |-> 0, created |-> 0, live |-> {}, isConnected |-> FALSE, timers |-> 0,
   clearing |-> <<>>, sockCreds |-> [c \in 1..MaxSock |-> Absent],
   settling |-> 0]

FileIdle(dir) ==
  /\ fileSvc = FileSvcIdle
  /\ authDir = dir

\* the bot as constructed, with AUTH_TOKEN and GROUP_CHAT_ID set
BotIdle ==
  /\ SessIdle
  /\ EnvIdle("secret", TRUE)
  /\ FileIdle(NoDir)

\* the fields close(), connectToWhatsApp() and the close handler work on
Sess == [sock |-> sock, created |-> created, live |-> live,
         isConnected |-> isConnected, timers |-> timers,
         clearing |-> clearing, sockCreds |-> sockCreds]

ShouldReconnect_Never(statusCode) == FALSE

\* const shouldReconnect = statusCode !== DisconnectReason.loggedOut
ShouldReconnect(statusCode) == statusCode # "loggedOut"

CloseBranch_AlwaysCleanup(statusCode) == "force"

\* connection === 'close': arm the reconnect timer, or force a re-pairing
CloseBranch(statusCode) ==
  IF ShouldReconnect(statusCode) THEN "timer"
  ELSE IF statusCode = "loggedOut" THEN "force"
  ELSE "none"

\* connectToWhatsApp(): useAuthState(), makeWASocket(), handlers registered;
\* the connection this.sock pointed to before is left as it is
ConnectToWhatsApp(st, creds) ==
  [st EXCEPT !.created = @ + 1,
             !.sock = st.created + 1,
             !.live = @ \cup {st.created + 1},
             !.sockCreds[st.created + 1] = LoadCreds(creds, OwnSession).creds]

\* the close handler run from inside sock.end(undefined): isConnected off,
\* then its branch; a forceReconnect() begun there finds the connection
\* closed already and queues its clearAuth()
HandlerInsideEnd(st) ==
  LET off == [st EXCEPT !.isConnected = FALSE]
  IN IF CloseBranch("undefined") = "timer" THEN [off EXCEPT !.timers = @ + 1]
     ELSE IF CloseBranch("undefined") = "force"
     THEN [off EXCEPT !.clearing = Append(@, "undefined")]
     ELSE off

\* close(): this.sock.end(undefined) inside try/catch, sock = null,
\* isConnected = false
CloseSock(st, outcome) ==
  IF st.sock = 0 THEN st
  ELSE LET gone == [st EXCEPT !.live = @ \ {st.sock},
                              !.sockCreds[st.sock] = Absent]
           ended == IF st.sock \notin st.live \/ outcome = "throw" THEN st
                    ELSE IF outcome = "emit" THEN HandlerInsideEnd(gone)
                    ELSE gone
       IN [ended EXCEPT !.sock = 0, !.isConnected = FALSE]

ForceReconnectBegin_ConnectFirst(st, outcome, cause) ==
  [ConnectToWhatsApp(CloseSock(st, outcome), dbCreds)
     EXCEPT !.clearing = Append(@, cause)]

\* forceReconnect() up to its first await on the database
ForceReconnectBegin(st, outcome, cause) ==
  [CloseSock(st, outcome) EXCEPT !.clearing = Append(@, cause)]

\* chat ids as sequences of characters
ChatIds == { <<"5", "5">>, <<" ", "5", " ">>, <<" ", " ">>, <<>> }

CanSend_SockOnly == sock # 0

\* sendMessage(): if (!this.sock || !this.isConnected) return false
CanSend == sock # 0 /\ isConnected

\* sendMessage(): whether this.sock.sendMessage() is reached, and the result
TransportInvoked(chatId) == CanSend /\ Trim(chatId) # <<>>
SendResult(chatId, accepts) == TransportInvoked(chatId) /\ accepts

SendCompletion_NoCatch(chatId, accepts) ==
  IF TransportInvoked(chatId) /\ ~accepts THEN "threw" ELSE "returned"

\* sendMessage(): how the call ends; whatever trim() or
\* this.sock.sendMessage() throws is caught and turned into false
SendCompletion(chatId, accepts) == "returned"

\* sendMessage(): the calls of this.sock.sendMessage() one call makes
TransportCalls(chatId) == IF TransportInvoked(chatId) THEN 1 ELSE 0

\* the session is one of the running kind: nothing stands between a
\* close() and its clearAuth()
Settled == clearing = <<>>

\* primed session fields from a record
SetSess(st) ==
  /\ sock' = st.sock
  /\ created' = st.created
  /\ live' = st.live
  /\ isConnected' = st.isConnected
  /\ timers' = st.timers
  /\ clearing' = st.clearing
  /\ sockCreds' = st.sockCreds

\* history: a connect attempt made while a re-pairing waits for it
RepairAfterConnect(st) ==
  IF repair.phase = "cleared" THEN [phase |-> "connecting", sock |-> st.sock]
  ELSE repair

\* initialize()
InitializeCall ==
  /\ Settled
  /\ created < MaxSock
  /\ SetSess(ConnectToWhatsApp(Sess, dbCreds))
  /\ repair' = RepairAfterConnect(ConnectToWhatsApp(Sess, dbCreds))
  /\ UNCHANGED <<dbVars, settling, pairVars, revokedPending, lastSend>>
  /\ madeBy' = "initialize"
  /\ UNCHANGED staleTimers

Initialize ==
  /\ InitializeCall
  /\ SessOnly

\* reconnect(): close(), initialize()
ReconnectCall(outcome) ==
  /\ Settled
  /\ created < MaxSock
  /\ LET st == ConnectToWhatsApp(CloseSock(Sess, outcome), dbCreds)
     IN /\ st.timers <= MaxTimers
        /\ SetSess(st)
        /\ repair' = RepairAfterConnect(st)
  /\ UNCHANGED <<dbVars, settling, pairVars, revokedPending, lastSend>>
  /\ madeBy' = "reconnect"
  /\ UNCHANGED staleTimers

Reconnect(outcome) ==
  /\ ReconnectCall(outcome)
  /\ SessOnly

\* close()
CloseCall(outcome) ==
  /\ Settled
  /\ LET st == CloseSock(Sess, outcome)
     IN st.timers <= MaxTimers /\ SetSess(st)
  /\ staleTimers' = timers
  /\ UNCHANGED <<dbVars, settling, pairVars, revokedPending, repair, lastSend, madeBy>>

Close(outcome) ==
  /\ CloseCall(outcome)
  /\ SessOnly

\* history: the pairing codes emitted so far belong to connections made
\* before this forceReconnect()
QrLogAfterForce ==
  [code \in 1..MaxQr |->
     IF code <= qrGen THEN [qrLog[code] EXCEPT !.stale = TRUE] ELSE qrLog[code]]

\* forceReconnect() called by the operator: close(); clearAuth() comes next
ForceReconnectCall(outcome) ==
  /\ Settled
  /\ settling < MaxSettling
  /\ LET st == ForceReconnectBegin(Sess, outcome, "operator")
     IN st.timers <= MaxTimers /\ SetSess(st)
  /\ qrLog' = QrLogAfterForce
  /\ UNCHANGED <<dbVars, settling, qrGen, renders, qrWhileOpen, sessHist>>

\* DevotionalBot.forceWhatsAppReconnect(), the operator's way to
\* forceReconnect(): currentQRCode = null first
ForceReconnect(outcome) ==
  /\ ForceReconnectCall(outcome)
  /\ currentQRCode' = 0
  /\ SessOnly

ForceClear_NoClearAuth(failAt) ==
  /\ clearing # <<>>
  /\ clearing' = Tail(clearing)
  /\ settling' = settling + 1
  /\ UNCHANGED <<dbVars, revokedPending, repair>>
  /\ UNCHANGED <<sock, created, live, isConnected, timers, sockCreds, pairVars,
                 lastSend, madeBy, staleTimers>>
  /\ SessOnly

\* forceReconnect(): clearAuth() inside try/catch (failAt = 1 or 2: that
\* DELETE throws), then the settle delay starts
ForceClearCall(failAt) ==
  /\ clearing # <<>>
  /\ clearing' = Tail(clearing)
  /\ settling' = settling + 1
  /\ dbCreds' = ClearAuthCreds(dbCreds, OwnSession, failAt)
  /\ dbKeys' = ClearAuthKeys(dbKeys, OwnSession, failAt)
  /\ lastSaved' = LastSavedAfterClear(failAt)
  /\ revokedPending' = FALSE
  /\ repair' = IF repair.phase = "closed"
               THEN IF failAt = 0 THEN [phase |-> "cleared", sock |-> 0]
                    ELSE NoRepair
               ELSE repair
  /\ UNCHANGED <<sock, created, live, isConnected, timers, sockCreds, pairVars,
                 lastSend, madeBy, staleTimers>>

ForceClear(failAt) ==
  /\ ForceClearCall(failAt)
  /\ SessOnly

\* forceReconnect(): the settle delay is over, initialize()
ForceSettledCall ==
  /\ Settled
  /\ settling > 0
  /\ created < MaxSock
  /\ settling' = settling - 1
  /\ SetSess(ConnectToWhatsApp(Sess, dbCreds))
  /\ repair' = RepairAfterConnect(ConnectToWhatsApp(Sess, dbCreds))
  /\ UNCHANGED <<dbVars, pairVars, revokedPending, lastSend>>
  /\ madeBy' = "forceReconnect"
  /\ UNCHANGED staleTimers

ForceSettled ==
  /\ ForceSettledCall
  /\ SessOnly

\* the reconnect timer runs out: connectToWhatsApp()
ReconnectTimerRuns ==
  /\ Settled
  /\ timers > 0
  /\ LET st == ConnectToWhatsApp([Sess EXCEPT !.timers = @ - 1], dbCreds)
     IN SetSess(st) /\ repair' = RepairAfterConnect(st)
  /\ UNCHANGED <<dbVars, settling, pairVars, revokedPending, lastSend>>
  /\ madeBy' = "timer"
  /\ staleTimers' = IF staleTimers > 0 THEN staleTimers - 1 ELSE 0

ReconnectTimerCall ==
  /\ created < MaxSock
  /\ ReconnectTimerRuns

ReconnectTimer ==
  /\ ReconnectTimerCall
  /\ SessOnly

\* connection.update {connection: 'open'} from connection c
EvOpenCall(c) ==
  /\ Settled
  /\ c \in live
  /\ isConnected' = TRUE
  /\ UNCHANGED <<sock, created, live, timers, clearing, settling, sockCreds>>
  /\ UNCHANGED <<dbVars, pairVars, sessHist>>

EvOpen(c) ==
  /\ EvOpenCall(c)
  /\ SessOnly

\* connection.update {connection: 'close', lastDisconnect} from connection c,
\* which the transport has taken down
EvCloseCall(c, statusCode, outcome) ==
  /\ Settled
  /\ c \in live
  /\ LET down == [Sess EXCEPT !.live = @ \ {c}, !.sockCreds[c] = Absent,
                              !.isConnected = FALSE]
         st == IF CloseBranch(statusCode) = "timer"
               THEN [down EXCEPT !.timers = @ + 1]
               ELSE IF CloseBranch(statusCode) = "force"
               THEN ForceReconnectBegin(down, outcome, statusCode)
               ELSE down
     IN /\ st.timers <= MaxTimers
        /\ Len(st.clearing) > 0 => settling < MaxSettling
        /\ SetSess(st)
  /\ revokedPending' = (revokedPending \/ statusCode = "loggedOut")
  /\ repair' = IF statusCode = "loggedOut" /\ isConnected
               THEN [phase |-> "closed", sock |-> 0] ELSE repair
  /\ qrLog' = IF CloseBranch(statusCode) = "force" THEN QrLogAfterForce ELSE qrLog
  /\ UNCHANGED <<dbVars, settling, qrGen, renders, currentQRCode, qrWhileOpen,
                 lastSend, madeBy, staleTimers>>

EvClose(c, statusCode, outcome) ==
  /\ EvCloseCall(c, statusCode, outcome)
  /\ SessOnly

\* the transport changes the creds of connection c and emits creds.update:
\* saveCreds() of the auth state the connection was made with
EvCredsUpdate(c, newCreds) ==
  /\ Settled
  /\ c \in live
  /\ sockCreds' = [sockCreds EXCEPT ![c] = newCreds]
  /\ dbCreds' = SaveCreds(dbCreds, OwnSession, newCreds)
  /\ lastSaved' = [lastSaved EXCEPT ![OwnSession] = newCreds]
  /\ repair' = IF repair.phase = "connecting" /\ repair.sock = c
               THEN NoRepair ELSE repair
  /\ UNCHANGED <<sock, created, live, isConnected, timers, clearing, settling>>
  /\ UNCHANGED <<dbKeys, pairVars, revokedPending, lastSend, madeBy, staleTimers>>
  /\ SessOnly

\* connection.update {qr} from connection c: QRCode.toDataURL(qr) starts
EvQr(c) ==
  /\ Settled
  /\ c \in live
  /\ qrGen < MaxQr
  /\ qrGen' = qrGen + 1
  /\ renders' = renders \cup {qrGen + 1}
  /\ UNCHANGED <<connVars, dbVars, currentQRCode, qrWhileOpen, qrLog, sessHist>>
  /\ SessOnly

\* QRCode.toDataURL(qr) settles; on success onQRCodeGenerated(base64, qr)
\* runs, which stores the image as DevotionalBot.currentQRCode
RenderDone(code, ok) ==
  /\ Settled
  /\ code \in renders
  /\ renders' = renders \ {code}
  /\ currentQRCode' = IF ok THEN code ELSE currentQRCode
  /\ qrWhileOpen' = (qrWhileOpen \/ (ok /\ isConnected))
  /\ qrLog' = [qrLog EXCEPT ![code].fired = IF ok THEN @ + 1 ELSE @]
  /\ UNCHANGED <<connVars, dbVars, qrGen, sessHist>>
  /\ SessOnly

\* sendMessage(message, chatId); accepts: this.sock.sendMessage() resolves
SendMessage(chatId, accepts) ==
  /\ Settled
  /\ lastSend' = [called |-> TRUE, open |-> isConnected,
                  invoked |-> TransportInvoked(chatId),
                  accepted |-> TransportInvoked(chatId) /\ accepts,
                  result |-> SendResult(chatId, accepts),
                  okBefore |-> (lastSend.okBefore \/ lastSend.result),
                  completion |-> SendCompletion(chatId, accepts),
                  transportCalls |-> TransportCalls(chatId)]
  /\ UNCHANGED <<connVars, dbVars, pairVars, revokedPending, repair, madeBy, staleTimers>>
  /\ SessOnly

\* lists of chat ids handed to sendToAll()
RECURSIVE SeqsUpTo(_, _)
SeqsUpTo(S, n) ==
  IF n = 0 THEN {<<>>}
  ELSE SeqsUpTo(S, n - 1)
         \cup { Append(q, x) : q \in { r \in SeqsUpTo(S, n - 1) : Len(r) = n - 1 },
                                x \in S }
DestLists == SeqsUpTo({<<"5", "5">>, <<" ", "5", " ">>, <<" ", " ">>}, MaxDests)

Tally_DropFailures(f, sent) ==
  [f EXCEPT !.results = Append(@, sent),
            !.success = IF sent THEN @ + 1 ELSE @,
            !.i = @ + 1,
            !.pc = IF f.i = Len(f.dests) THEN "done" ELSE "next"]

\* sendToAll(): the loop body after `await this.sendMessage(...)`, and the
\* step of the for loop
Tally(f, sent) ==
  [f EXCEPT !.results = Append(@, sent),
            !.success = IF sent THEN @ + 1 ELSE @,
            !.failures = IF sent THEN @ ELSE @ + 1,
            !.i = @ + 1,
            !.pc = IF f.i = Len(f.dests) THEN "done" ELSE "next"]

\* sendToAll(message, chatIds): success = 0, failures = 0, the loop entered
SendToAll(chatIds) ==
  /\ Settled
  /\ fanout.pc \in {"idle", "done"}
  /\ fanout' = [NoFanout EXCEPT !.dests = chatIds, !.i = 1,
                                !.pc = IF chatIds = <<>> THEN "done" ELSE "next"]
  /\ UNCHANGED <<connVars, dbVars, pairVars, sessHist, authVars, schedVars,
                 httpVars, shutdown, fileVars, recipVars>>

\* sendToAll(): this.sendMessage(message, chatId) is called for the chat id
\* at the loop's position; it returns false at once, or waits for the
\* transport
FanoutSend ==
  /\ Settled
  /\ fanout.pc = "next"
  /\ LET chatId == fanout.dests[fanout.i]
         begun == [fanout EXCEPT !.started = Append(@, chatId)]
     IN fanout' = IF TransportInvoked(chatId)
                  THEN [begun EXCEPT !.pc = "sending"]
                  ELSE Tally(begun, SendResult(chatId, FALSE))
  /\ UNCHANGED <<connVars, dbVars, pairVars, sessHist, authVars, schedVars,
                 httpVars, shutdown, fileVars, recipVars>>

\* sendToAll(): this.sock.sendMessage() of the send under way settles
FanoutSettle(accepts) ==
  /\ Settled
  /\ fanout.pc = "sending"
  /\ fanout' = Tally(fanout, accepts)
  /\ UNCHANGED <<connVars, dbVars, pairVars, sessHist, authVars, schedVars,
                 httpVars, shutdown, fileVars, recipVars>>

(***************************************************************************)
(* The HTTP server (Bun.serve fetch handler): the routes guarded by        *)
(* checkAuth and the scheduler routes.  A string is itself, null and       *)
(* undefined are NoToken; an Authorization header is the scheme it starts  *)
(* with (up to and including the blank) and the rest.                      *)
(***************************************************************************)
\* null / undefined
NoToken == "null"
\* what process.env.AUTH_TOKEN can be
AuthTokens == {NoToken, "", "secret"}
\* ?token=... of the request URL
QueryTokens == {NoToken, "", "secret", "wrong"}
\* the Authorization header of the request
NoHeader == [present |-> FALSE, scheme |-> "", rest |-> ""]
AuthHeaders ==
  {NoHeader} \cup { [present |-> TRUE, scheme |-> sc, rest |-> r] :
                      sc \in {"Bearer ", "bearer ", "Basic "},
                      r \in {"", "secret", "wrong"} }

\* if (x) on a string or null
TruthyStr(x) == x \notin {NoToken, ""}

\* authHeader && authHeader.startsWith('Bearer ') ? authHeader.slice(7) : null
HeaderToken(header) ==
  IF header.present /\ header.scheme = "Bearer " THEN header.rest ELSE NoToken

\* checkAuth(req): "pass" is the null it returns when the request may go on
CheckAuth(token, header, queryToken) ==
  IF TruthyStr(token)
  THEN LET given == IF TruthyStr(HeaderToken(header)) THEN HeaderToken(header)
                    ELSE queryToken
       IN IF ~TruthyStr(given) \/ given # token THEN "401" ELSE "pass"
  ELSE "pass"

\* POST /send; sent: what bot.sendTodaysDevotional() returns
HttpSend(header, queryToken, sent) ==
  /\ LET pass == CheckAuth(authToken, header, queryToken) = "pass"
     IN lastRequest' =
          [route |-> "POST /send", header |-> header, query |-> queryToken,
           status |-> IF ~pass THEN 401
                      ELSE IF ~groupChatId THEN 400
                      ELSE IF sent THEN 200 ELSE 500,
           sendTriggered |-> pass /\ groupChatId,
           disclosed |-> FALSE, schedulerCalled |-> FALSE]
  /\ UNCHANGED <<storeVars, schedVars, sessVars, authToken, groupChatId,
                 shutdown, recipVars>>

\* GET /scheduler/status: bot.getSchedulerStatus() in the response
HttpSchedulerStatus(header, queryToken) ==
  /\ lastRequest' =
       [route |-> "GET /scheduler/status", header |-> header,
        query |-> queryToken, status |-> 200, sendTriggered |-> FALSE,
        disclosed |-> TRUE, schedulerCalled |-> FALSE]
  /\ UNCHANGED <<storeVars, schedVars, sessVars, authToken, groupChatId,
                 shutdown, recipVars>>

\* POST /scheduler/start: bot.startScheduler(); what start() throws is the
\* 500 of the catch
HttpSchedulerStart(header, queryToken) ==
  /\ LET pass == CheckAuth(authToken, header, queryToken) = "pass"
     IN /\ IF pass THEN StartCall ELSE UNCHANGED schedVars
        /\ lastRequest' =
             [route |-> "POST /scheduler/start", header |-> header,
              query |-> queryToken,
              status |-> IF ~pass THEN 401
                         ELSE IF ~StartIsNoOp /\ ~ConvertTimeToCron(sendTime).ok
                         THEN 500 ELSE 200,
              sendTriggered |-> FALSE, disclosed |-> FALSE,
              schedulerCalled |-> pass]
  /\ UNCHANGED <<storeVars, sessVars, authToken, groupChatId, shutdown,
                 recipVars>>

\* POST /scheduler/stop: bot.stopScheduler()
HttpSchedulerStop(header, queryToken) ==
  /\ LET pass == CheckAuth(authToken, header, queryToken) = "pass"
     IN /\ IF pass THEN StopCall ELSE UNCHANGED schedVars
        /\ lastRequest' =
             [route |-> "POST /scheduler/stop", header |-> header,
              query |-> queryToken,
              status |-> IF ~pass THEN 401 ELSE 200,
              sendTriggered |-> FALSE, disclosed |-> FALSE,
              schedulerCalled |-> pass]
  /\ UNCHANGED <<storeVars, sessVars, authToken, groupChatId, shutdown,
                 recipVars>>

(***************************************************************************)
(* The file-backed WhatsAppService (auth state in tokens/baileys_auth_info *)
(* through useMultiFileAuthState).  Its steps are those of the service     *)
(* above; each is taken on fileSvc and authDir.                            *)
(***************************************************************************)
\* useMultiFileAuthState(authDir): the folder is made when it is missing;
\* state.creds is what creds.json holds, or initAuthCreds()
UseMultiFileAuthState(dir) ==
  [creds |-> IF dir.exists /\ dir.creds # Absent THEN dir.creds ELSE FreshCreds,
   dir |-> [dir EXCEPT !.exists = TRUE]]

\* forceReconnect(): if (existsSync(authDir)) rmSync(authDir, ...) inside
\* try/catch; fails: rmSync throws
RemoveAuthDir(dir, fails) == IF dir.exists /\ ~fails THEN NoDir ELSE dir

FileShouldReconnect(statusCode) == statusCode # "loggedOut"

FileCloseBranch(statusCode) ==
  IF FileShouldReconnect(statusCode) THEN "timer"
  ELSE IF statusCode = "loggedOut" THEN "force"
  ELSE "none"

\* connectToWhatsApp()
FileConnectToWhatsApp(st, dir) ==
  [st EXCEPT !.created = @ + 1,
             !.sock = st.created + 1,
             !.live = @ \cup {st.created + 1},
             !.sockCreds[st.created + 1] = UseMultiFileAuthState(dir).creds]

\* the close handler run from inside sock.end(undefined)
FileHandlerInsideEnd(st) ==
  LET off == [st EXCEPT !.isConnected = FALSE]
  IN IF FileCloseBranch("undefined") = "timer" THEN [off EXCEPT !.timers = @ + 1]
     ELSE IF FileCloseBranch("undefined") = "force"
     THEN [off EXCEPT !.clearing = Append(@, "undefined")]
     ELSE off

FileCloseSock_KeepConnected(st, outcome) ==
  IF st.sock = 0 THEN st
  ELSE LET gone == [st EXCEPT !.live = @ \ {st.sock},
                              !.sockCreds[st.sock] = Absent]
           ended == IF st.sock \notin st.live \/ outcome = "throw" THEN st
                    ELSE IF outcome = "emit" THEN FileHandlerInsideEnd(gone)
                    ELSE gone
       IN [ended EXCEPT !.sock = 0]

\* close()
FileCloseSock(st, outcome) ==
  IF st.sock = 0 THEN st
  ELSE LET gone == [st EXCEPT !.live = @ \ {st.sock},
                              !.sockCreds[st.sock] = Absent]
           ended == IF st.sock \notin st.live \/ outcome = "throw" THEN st
                    ELSE IF outcome = "emit" THEN FileHandlerInsideEnd(gone)
                    ELSE gone
       IN [ended EXCEPT !.sock = 0, !.isConnected = FALSE]

\* forceReconnect() up to the removal of the directory
FileForceReconnectBegin(st, outcome, cause) ==
  [FileCloseSock(st, outcome) EXCEPT !.clearing = Append(@, cause)]

\* sendMessage(): the guard, whether this.sock.sendMessage() is reached, and
\* the result
FileCanSend(st) == st.sock # 0 /\ st.isConnected
FileTransportInvoked(st, chatId) == FileCanSend(st) /\ Trim(chatId) # <<>>
FileSendResult(st, chatId, accepts) == FileTransportInvoked(st, chatId) /\ accepts

FileSettled == fileSvc.clearing = <<>>

\* initialize()
FileInitialize ==
  /\ FileSettled
  /\ fileSvc.created < MaxSock
  /\ fileSvc' = FileConnectToWhatsApp(fileSvc, authDir)
  /\ authDir' = UseMultiFileAuthState(authDir).dir

\* reconnect(): close(), initialize()
FileReconnect(outcome) ==
  /\ FileSettled
  /\ fileSvc.created < MaxSock
  /\ LET st == FileConnectToWhatsApp(FileCloseSock(fileSvc, outcome), authDir)
     IN st.timers <= MaxTimers /\ fileSvc' = st
  /\ authDir' = UseMultiFileAuthState(authDir).dir

\* close()
FileClose(outcome) ==
  /\ FileSettled
  /\ LET st == FileCloseSock(fileSvc, outcome)
     IN st.timers <= MaxTimers /\ fileSvc' = st
  /\ UNCHANGED authDir

\* forceReconnect() called by the operator: close()
FileForceReconnect(outcome) ==
  /\ FileSettled
  /\ fileSvc.settling < MaxSettling
  /\ LET st == FileForceReconnectBegin(fileSvc, outcome, "operator")
     IN st.timers <= MaxTimers /\ fileSvc' = st
  /\ UNCHANGED authDir

\* forceReconnect(): the directory removed, then the settle delay starts
FileForceClear(fails) ==
  /\ fileSvc.clearing # <<>>
  /\ fileSvc' = [fileSvc EXCEPT !.clearing = Tail(@), !.settling = @ + 1]
  /\ authDir' = RemoveAuthDir(authDir, fails)

\* forceReconnect(): the settle delay is over, initialize()
FileForceSettled ==
  /\ FileSettled
  /\ fileSvc.settling > 0
  /\ fileSvc.created < MaxSock
  /\ fileSvc' = FileConnectToWhatsApp([fileSvc EXCEPT !.settling = @ - 1], authDir)
  /\ authDir' = UseMultiFileAuthState(authDir).dir

\* the reconnect timer runs out: connectToWhatsApp()
FileReconnectTimer ==
  /\ FileSettled
  /\ fileSvc.timers > 0
  /\ fileSvc.created < MaxSock
  /\ fileSvc' = FileConnectToWhatsApp([fileSvc EXCEPT !.timers = @ - 1], authDir)
  /\ authDir' = UseMultiFileAuthState(authDir).dir

\* connection.update {connection: 'open'} from connection c
FileEvOpen(c) ==
  /\ FileSettled
  /\ c \in fileSvc.live
  /\ fileSvc' = [fileSvc EXCEPT !.isConnected = TRUE]
  /\ UNCHANGED authDir

\* connection.update {connection: 'close', lastDisconnect} from connection c
FileEvClose(c, statusCode, outcome) ==
  /\ FileSettled
  /\ c \in fileSvc.live
  /\ LET down == [fileSvc EXCEPT !.live = @ \ {c}, !.sockCreds[c] = Absent,
                                 !.isConnected = FALSE]
         st == IF FileCloseBranch(statusCode) = "timer"
               THEN [down EXCEPT !.timers = @ + 1]
               ELSE IF FileCloseBranch(statusCode) = "force"
               THEN FileForceReconnectBegin(down, outcome, statusCode)
               ELSE down
     IN /\ st.timers <= MaxTimers
        /\ Len(st.clearing) > 0 => fileSvc.settling < MaxSettling
        /\ fileSvc' = st
  /\ UNCHANGED authDir

\* The same public call or transport event on both services.  The stores
\* fail independently of each other.
BothInitialize == InitializeCall /\ FileInitialize /\ BackendFrame
BothReconnect(outcome) ==
  ReconnectCall(outcome) /\ FileReconnect(outcome) /\ BackendFrame
BothClose(outcome) == CloseCall(outcome) /\ FileClose(outcome) /\ BackendFrame
BothForceReconnect(outcome) ==
  /\ ForceReconnectCall(outcome) /\ FileForceReconnect(outcome)
  /\ UNCHANGED currentQRCode /\ BackendFrame
BothForceClear(failAt, fails) ==
  ForceClearCall(failAt) /\ FileForceClear(fails) /\ BackendFrame
BothForceSettled == ForceSettledCall /\ FileForceSettled /\ BackendFrame
BothReconnectTimer == ReconnectTimerCall /\ FileReconnectTimer /\ BackendFrame
BothEvOpen(c) == EvOpenCall(c) /\ FileEvOpen(c) /\ BackendFrame
BothEvClose(c, statusCode, outcome) ==
  /\ EvCloseCall(c, statusCode, outcome)
  /\ FileEvClose(c, statusCode, outcome)
  /\ BackendFrame

(***************************************************************************)
(* Process shutdown.  The SIGINT / SIGTERM handler awaits bot.close() and  *)
(* calls process.exit(0).  bot.close() calls schedulerService.stop() and   *)
(* awaits whatsappService.close(); neither yields to the event loop, so    *)
(* the handler is one step, after which the process runs nothing.          *)
(***************************************************************************)
\* the process has not exited
Alive == ~shutdown.exited

ProcessExits_Never == FALSE

\* process.exit(0) after `await bot.close()`
ProcessExits == TRUE

\* SIGINT or SIGTERM: bot.close(), process.exit(0)
Shutdown(outcome) ==
  /\ Alive
  /\ StopCall
  /\ LET st == CloseSock(Sess, outcome)
     IN st.timers <= MaxTimers /\ SetSess(st)
  /\ shutdown' = [begun |-> TRUE,
                  calls |-> <<"schedulerService.stop", "whatsappService.close">>,
                  exited |-> ProcessExits]
  /\ UNCHANGED <<dbVars, authVars, settling, pairVars, sessHist, fanout, httpVars,
                 fileVars, recipVars>>

(***************************************************************************)
(* Initial states and specifications.                                      *)
(***************************************************************************)
\* a service instance before its first useAuthState(), over the two tables
StoreIdleOver(credsTable, keysTable) ==
  /\ dbCreds = credsTable
  /\ dbKeys = keysTable
  /\ authReady = FALSE
  /\ authCreds = Absent
  /\ keys = [t \in Types |-> [i \in Ids |-> Absent]]
  /\ written = [t \in Types |-> [i \in Ids |-> NoWrite]]
  /\ lastLoad = NoLoad
  /\ savedSinceClear = (credsTable[OwnSession].kind # "none")
  /\ clearedClean = FALSE
  /\ lastSaved = [s \in SessionIds |-> Absent]

\* what both specifications of the store start from, given the creds table
StoreIdle(credsTable) ==
  \E keyId \in AllKeyIds :
    StoreIdleOver(credsTable,
                  [s \in SessionIds |-> [k \in AllKeyIds |->
                     IF s = OwnSession /\ k = keyId
                        /\ credsTable[OwnSession].kind = "json"
                     THEN Stringify("v1") ELSE NoRow]])

StoreInitWith(credsTable) ==
  /\ StoreIdle(credsTable)
  /\ SchedIdle
  /\ BotIdle

\* the tables as an earlier run of the bot can have left them: empty, or
\* the credentials of a paired session with one of its keys
StoreInit ==
  \E own \in {NoRow, Stringify("c1")} :
    StoreInitWith([s \in SessionIds |-> IF s = OwnSession THEN own ELSE NoRow])

CredsInit ==
  \E own \in {NoRow, Stringify("c1"), GarbageRow} :
    \E other \in {NoRow, Stringify("c1")} :
      StoreInitWith([s \in SessionIds |-> IF s = OwnSession THEN own ELSE other])

\* the key store: keys.get / keys.set against reload and clear
StoreNext ==
  \/ UseAuthState
  \/ \E t \in Types : \E ids \in (SUBSET Ids) \ {{}} : KeysGet(t, ids)
  \/ \E data \in SetBatches : \E failAt \in 0..Len(data) : KeysSet(data, failAt)
  \/ \E failAt \in 0..2 : ClearAuth(failAt)

StoreSpec == StoreInit /\ [][StoreNext]_vars

\* one auth state over empty tables: keys.get and keys.set only
KeyNext ==
  \/ ~authReady /\ UseAuthState
  \/ \E t \in Types : \E ids \in (SUBSET Ids) \ {{}} : KeysGet(t, ids)
  \/ \E data \in SetBatches : \E failAt \in 0..Len(data) : KeysSet(data, failAt)

KeySpec == StoreInitWith([s \in SessionIds |-> NoRow]) /\ [][KeyNext]_vars

\* what a call of the RecipientsService leaves alone
RecipientsOnly == UNCHANGED <<storeVars, schedVars, sessVars, httpVars, shutdown>>

\* the recipients table alone: initialize, create, update, delete
RecipientsNext ==
  \/ RecipientsInitialize /\ RecipientsOnly
  \/ \E chatId \in ChatIdArgs : \E name \in NameArgs : \E type \in TypeArgs :
       RecipientsCreate(chatId, name, type) /\ RecipientsOnly
  \/ \E id \in IdArgs : \E chatId \in ChatIdArgs : \E name \in NameArgs :
       \E type \in TypeArgs :
         RecipientsUpdate(id, chatId, name, type) /\ RecipientsOnly
  \/ \E id \in IdArgs : RecipientsDelete(id) /\ RecipientsOnly

RecipientsSpec ==
  StoreInitWith([s \in SessionIds |-> NoRow]) /\ [][RecipientsNext]_vars

\* the credential record: load / save / clear
CredsNext ==
  \/ UseAuthState
  \/ \E c \in PairedCreds : CredsUpdate(c)
  \/ \E c \in PairedCreds : OtherSessionSave(c)
  \/ \E failAt \in 0..2 : ClearAuth(failAt)

CredsSpec == CredsInit /\ [][CredsNext]_vars

\* the key store over tables in which rows can be unparsable
CorruptInit ==
  \E own \in {NoRow, Stringify("c1"), GarbageRow} :
    \E rows \in [AllKeyIds -> {NoRow, Stringify("v1"), GarbageRow}] :
      /\ StoreIdleOver([s \in SessionIds |-> IF s = OwnSession THEN own ELSE NoRow],
                       [s \in SessionIds |->
                          IF s = OwnSession THEN rows ELSE [k \in AllKeyIds |-> NoRow]])
      /\ SchedIdle
      /\ BotIdle

CorruptNext ==
  \/ UseAuthState
  \/ \E t \in Types : \E ids \in (SUBSET Ids) \ {{}} : KeysGet(t, ids)
  \/ \E failAt \in 0..2 : ClearAuth(failAt)

CorruptSpec == CorruptInit /\ [][CorruptNext]_vars

SchedNext ==
  \/ Start
  \/ Stop
  \/ CronFire
  \/ \E f \in 1..MaxFirings : \E o \in Outcomes : ExecuteReturns(f, o)
  \/ Tick
  \/ \E f \in 1..MaxFirings : RetryTimer(f)
  \/ \E f \in 1..MaxFirings : \E o \in Outcomes : RetryReturns(f, o)

\* the scheduler on its own (the store stays empty)
SchedInit ==
  StoreInitWith([s \in SessionIds |-> NoRow])

SchedSpec == SchedInit /\ [][SchedNext]_vars

\* the scheduler with a task callback that returns true or throws
ThrowOutcomes == Outcomes \ {"false"}

ThrowNext ==
  \/ Start
  \/ Stop
  \/ CronFire
  \/ \E f \in 1..MaxFirings : \E o \in ThrowOutcomes : ExecuteReturns(f, o)
  \/ Tick
  \/ \E f \in 1..MaxFirings : RetryTimer(f)
  \/ \E f \in 1..MaxFirings : \E o \in ThrowOutcomes : RetryReturns(f, o)

ThrowSpec == SchedInit /\ [][ThrowNext]_vars

\* the scheduler when every onExecute() call returns or throws and every
\* setTimeout of retryTask() runs out
CallbacksSettle ==
  /\ \A f \in 1..MaxFirings :
       /\ WF_vars(\E o \in Outcomes : ExecuteReturns(f, o))
       /\ WF_vars(RetryTimer(f))
       /\ WF_vars(\E o \in Outcomes : RetryReturns(f, o))
  /\ WF_vars(Tick)

SettleNext ==
  \/ Start
  \/ CronFire
  \/ \E f \in 1..MaxFirings : \E o \in Outcomes : ExecuteReturns(f, o)
  \/ Tick
  \/ \E f \in 1..MaxFirings : RetryTimer(f)
  \/ \E f \in 1..MaxFirings : \E o \in Outcomes : RetryReturns(f, o)

SettleSpec == SchedInit /\ [][SettleNext]_vars /\ CallbacksSettle

\* the scheduler under every configured time of day, up to the first
\* onExecute() of a firing
TimeNext ==
  \/ Start
  \/ Stop
  \/ CronFire
  \/ \E f \in 1..MaxFirings : \E o \in Outcomes : ExecuteReturns(f, o)
  \/ \E now \in Nows : GetStatus(now)

TimeInit ==
  \E time \in SendTimes : \E zone \in Timezones :
    /\ StoreIdle([s \in SessionIds |-> NoRow])
    /\ SchedIdleOver(time, zone)
    /\ BotIdle

TimeSpec == TimeInit /\ [][TimeNext]_vars

\* executeNow() next to the scheduled firings, up to the first onExecute()
\* of a firing
ManualNext ==
  \/ Start
  \/ Stop
  \/ CronFire
  \/ \E f \in 1..MaxFirings : \E o \in Outcomes : ExecuteReturns(f, o)
  \/ ExecuteNow
  \/ \E o \in Outcomes : ExecuteNowReturns(o)

ManualSpec == SchedInit /\ [][ManualNext]_vars

\* the HTTP routes of a bot whose scheduler was constructed, under every
\* AUTH_TOKEN and GROUP_CHAT_ID the process can be started with
HttpInit ==
  \E token \in AuthTokens : \E chat \in BOOLEAN :
    /\ StoreIdle([s \in SessionIds |-> NoRow])
    /\ SchedIdle
    /\ SessIdle
    /\ EnvIdle(token, chat)
    /\ FileIdle(NoDir)

HttpNext ==
  \/ \E h \in AuthHeaders : \E q \in QueryTokens : \E sent \in BOOLEAN :
       HttpSend(h, q, sent)
  \/ \E h \in AuthHeaders : \E q \in QueryTokens : HttpSchedulerStatus(h, q)
  \/ \E h \in AuthHeaders : \E q \in QueryTokens : HttpSchedulerStart(h, q)
  \/ \E h \in AuthHeaders : \E q \in QueryTokens : HttpSchedulerStop(h, q)

HttpSpec == HttpInit /\ [][HttpNext]_vars

\* the scheduler and a session up to the shutdown signal, and after it
ShutdownNext ==
  \/ Alive /\ Start
  \/ Alive /\ CronFire
  \/ \E f \in 1..MaxFirings : \E o \in Outcomes : Alive /\ ExecuteReturns(f, o)
  \/ Alive /\ Tick
  \/ \E f \in 1..MaxFirings : Alive /\ RetryTimer(f)
  \/ \E f \in 1..MaxFirings : \E o \in Outcomes : Alive /\ RetryReturns(f, o)
  \/ Alive /\ Initialize
  \/ \E o \in EndOutcomes : Shutdown(o)

ShutdownSpec == SchedInit /\ [][ShutdownNext]_vars

\* both services side by side, each over the credentials an earlier run
\* left in its store
BackendInit ==
  \E own \in {NoRow, Stringify("c1")} :
    /\ StoreIdle([s \in SessionIds |-> IF s = OwnSession THEN own ELSE NoRow])
    /\ SchedIdle
    /\ SessIdle
    /\ EnvIdle("secret", TRUE)
    /\ FileIdle(IF own = NoRow THEN NoDir ELSE [exists |-> TRUE, creds |-> "c1"])

BackendNext ==
  \/ BothInitialize
  \/ \E o \in EndOutcomes : BothReconnect(o)
  \/ \E o \in EndOutcomes : BothClose(o)
  \/ \E o \in EndOutcomes : BothForceReconnect(o)
  \/ \E failAt \in 0..2 : \E fails \in BOOLEAN : BothForceClear(failAt, fails)
  \/ BothForceSettled
  \/ BothReconnectTimer
  \/ \E c \in 1..MaxSock : BothEvOpen(c)
  \/ \E c \in 1..MaxSock : \E code \in StatusCodes : \E o \in EndOutcomes :
       BothEvClose(c, code, o)

BackendSpec == BackendInit /\ [][BackendNext]_vars

\* the session manager and the store it clears and reloads
SessionCreds == {"c1", "c2"}

Next ==
  \/ Initialize
  \/ \E o \in EndOutcomes : Reconnect(o)
  \/ \E o \in EndOutcomes : Close(o)
  \/ \E o \in EndOutcomes : ForceReconnect(o)
  \/ \E failAt \in 0..2 : ForceClear(failAt)
  \/ ForceSettled
  \/ ReconnectTimer
  \/ \E c \in 1..MaxSock : EvOpen(c)
  \/ \E c \in 1..MaxSock : \E code \in StatusCodes : \E o \in EndOutcomes :
       EvClose(c, code, o)
  \/ \E c \in 1..MaxSock : \E newCreds \in SessionCreds : EvCredsUpdate(c, newCreds)

Spec == StoreInit /\ [][Next]_vars

\* the session manager and sendMessage()
SendNext ==
  \/ Initialize
  \/ \E o \in EndOutcomes : Reconnect(o)
  \/ \E o \in EndOutcomes : Close(o)
  \/ \E o \in EndOutcomes : ForceReconnect(o)
  \/ \E failAt \in 0..2 : ForceClear(failAt)
  \/ ForceSettled
  \/ ReconnectTimer
  \/ \E c \in 1..MaxSock : EvOpen(c)
  \/ \E c \in 1..MaxSock : \E code \in StatusCodes : \E o \in EndOutcomes :
       EvClose(c, code, o)
  \/ \E chatId \in ChatIds : \E accepts \in BOOLEAN : SendMessage(chatId, accepts)

SendSpec == StoreInit /\ [][SendNext]_vars

\* the session manager and the pairing codes
PairNext ==
  \/ Initialize
  \/ \E o \in EndOutcomes : Reconnect(o)
  \/ \E o \in EndOutcomes : Close(o)
  \/ \E o \in EndOutcomes : ForceReconnect(o)
  \/ \E failAt \in 0..2 : ForceClear(failAt)
  \/ ForceSettled
  \/ ReconnectTimer
  \/ \E c \in 1..MaxSock : EvOpen(c)
  \/ \E c \in 1..MaxSock : \E code \in StatusCodes : \E o \in EndOutcomes :
       EvClose(c, code, o)
  \/ \E c \in 1..MaxSock : EvQr(c)
  \/ \E code \in 1..MaxQr : \E ok \in BOOLEAN : RenderDone(code, ok)

PairSpec == StoreInit /\ [][PairNext]_vars

\* the session left to the transport after initialize(): connections open
\* and drop, and nobody calls the service.  A connection drops only while
\* the reconnect it causes is within MaxConn.
DropNext ==
  \/ created = 0 /\ Initialize
  \/ \E c \in 1..MaxConn : EvOpen(c)
  \/ \E c \in 1..MaxConn : \E code \in StatusCodes : \E o \in EndOutcomes :
       created + timers < MaxConn /\ EvClose(c, code, o)
  \/ \E failAt \in 0..2 : ForceClear(failAt)
  \/ ForceSettled
  \/ created < MaxConn /\ ReconnectTimerRuns /\ SessOnly

\* every setTimeout runs out, and clearAuth() returns
TimersRunOut ==
  /\ WF_vars(created < MaxConn /\ ReconnectTimerRuns /\ SessOnly)
  /\ WF_vars(\E failAt \in 0..2 : ForceClear(failAt))

DropSpec == StoreInit /\ [][DropNext]_vars /\ TimersRunOut

\* sendToAll() while the session connects, opens and is closed
FanoutNext ==
  \/ Initialize
  \/ \E o \in EndOutcomes : Close(o)
  \/ \E c \in 1..MaxSock : EvOpen(c)
  \/ \E chatIds \in DestLists : SendToAll(chatIds)
  \/ FanoutSend
  \/ \E accepts \in BOOLEAN : FanoutSettle(accepts)

FanoutSpec == StoreInit /\ [][FanoutNext]_vars

(***************************************************************************)
(* Claims about the credential store.                                      *)
(***************************************************************************)
\* C21: saving credentials is a full-overwrite upsert: after any sequence
\* of saves for a session id the table holds, as the one row of that id,
\* the record saved last, loadCreds returns that record without error, and
\* a useAuthState() made then hands it out as state.creds.
C21_SaveIsUpsert ==
  /\ [](\A sid \in SessionIds :
          lastSaved[sid] # Absent =>
            /\ dbCreds[sid] = Stringify(lastSaved[sid])
            /\ LoadCreds(dbCreds, sid) = [error |-> FALSE, creds |-> lastSaved[sid]])
  /\ [][(lastLoad' # lastLoad /\ lastSaved[OwnSession] # Absent)
          => authCreds' = lastSaved[OwnSession]]_vars

\* C21 witness: a row that held c1 or nothing was saved over, and the load
\* after the saves returned the record saved last, c2
C21_Witness ==
  /\ lastSaved[OwnSession] = "c2"
  /\ lastSaved[OtherSession] = "c3"
  /\ lastLoad.called
  /\ lastLoad.saved
  /\ lastLoad.row = Stringify("c2")
  /\ lastLoad.creds = "c2"
  /\ authCreds = "c2"

\* what keys.get must hand back for a key whose last keys.set entry was v
Expected(v) == IF v = NullVal THEN Absent ELSE v

\* C1: on one auth state, keys.get for any set of ids returns, for every id
\* that keys.set wrote on this auth state (the call having returned), exactly
\* the last value written, and omits the id when the last entry written for
\* it was the null tombstone.
C1_GetReturnsLastWrite ==
  authReady =>
    \A t \in Types : \A ids \in (SUBSET Ids) \ {{}} : \A i \in ids :
      (written[t][i].here /\ written[t][i].last # "failed")
        => KeysGetResult(keys, dbKeys[OwnSession], t, ids)[i]
             = Expected(written[t][i].last)

\* C1 witness: a value was set for "a:b", then a tombstone, and keys.get
\* omits it, while another key still returns the value last set for it.
C1_Witness ==
  /\ authReady
  /\ written["session"][<<"a", "b">>].here
  /\ written["session"][<<"a", "b">>].hadValue
  /\ written["session"][<<"a", "b">>].last = NullVal
  /\ written["pre-key"][<<"a">>].last = "v2"
  /\ written["pre-key"][<<"a">>].here
  /\ KeysGetResult(keys, dbKeys[OwnSession], "session", {<<"a", "b">>})[<<"a", "b">>] = Absent
  /\ KeysGetResult(keys, dbKeys[OwnSession], "pre-key", {<<"a">>})[<<"a">>] = "v2"

\* C2: loadCreds for a session id whose credentials were never saved, or
\* were cleared since, returns a freshly initialised record and no error.
C2_LoadWithoutSaveIsFresh ==
  (lastLoad.called /\ ~lastLoad.saved)
    => (~lastLoad.error /\ lastLoad.creds = FreshCreds)

\* C2 witness: a load found no record of the own session (another session
\* has one) and returned the fresh record
C2_Witness ==
  /\ lastLoad.called /\ ~lastLoad.saved
  /\ lastLoad.row = NoRow
  /\ lastLoad.creds = FreshCreds
  /\ authCreds = FreshCreds
  /\ dbCreds[OtherSession] # NoRow

\* C20: after clearAuth() has returned, and until something is saved or
\* set again, the store holds no creds row and no key row of the session, a
\* load returns the fresh record without error, and keys.get returns an
\* empty mapping for every id.
C20_ClearLeavesNothing ==
  clearedClean =>
    /\ dbCreds[OwnSession] = NoRow
    /\ \A k \in AllKeyIds : dbKeys[OwnSession][k] = NoRow
    /\ LoadCreds(dbCreds, OwnSession).creds = FreshCreds
    /\ ~LoadCreds(dbCreds, OwnSession).error
    /\ authReady =>
         \A t \in Types : \A ids \in (SUBSET Ids) \ {{}} : \A i \in ids :
           KeysGetResult(keys, dbKeys[OwnSession], t, ids)[i] = Absent

\* C22: keys.get returns entries only for ids that were written under
\* exactly that category and id, also after a reload: an id that was never
\* written (no keys.set names it, no row of the table has it) is omitted,
\* also when a stored id shares its prefix up to a ':'.
C22_GetOnlyWrittenIds ==
  authReady =>
    \A t \in Types, i \in Ids :
      [type |-> t, id |-> i] \notin KeyUniverse =>
        KeysGetResult(keys, dbKeys[OwnSession], t, {i})[i] = Absent

\* C30: a stored key row that cannot be deserialised is treated as absent:
\* loadKeys yields a cache, keys.get omits the id of a corrupt row, and
\* returns the value of every well-formed row.
C30_CorruptRowIsAbsent ==
  /\ LoadKeys(dbKeys[OwnSession]) # {}
  /\ authReady =>
       \A k \in KeyUniverse :
         LET row == dbKeys[OwnSession][KeyIdOf(k.type, k.id)]
             got == KeysGetResult(keys, dbKeys[OwnSession], k.type, Ids)[k.id]
         IN /\ row = GarbageRow => got = Absent
            /\ row.kind = "json" => got = Parse(row).val

\* C30 witness: the auth state was loaded from a table with a corrupt and a
\* well-formed key row, and a get has read the well-formed one
C30_Witness ==
  /\ authReady
  /\ dbKeys[OwnSession][<<"pre-key", "a">>] = GarbageRow
  /\ dbKeys[OwnSession][<<"session", "a", "b">>] = Stringify("v1")
  /\ keys["session"][<<"a", "b">>] = "v1"

\* C37: after any get and set calls on one auth state, a set whose database
\* statement threw included, every (category, id) the cache holds is in the
\* table with the same value, and the cache holds no tombstone.
C37_CacheAgreesWithDatabase ==
  authReady =>
    \A t \in Types : \A i \in Ids :
      /\ keys[t][i] # NullVal
      /\ keys[t][i] \in Values =>
            /\ KeyIdOf(t, i) \in AllKeyIds
            /\ dbKeys[OwnSession][KeyIdOf(t, i)] = Stringify(keys[t][i])

\* C40: no two stored recipients have the same chat id; every stored
\* recipient has a non-empty trimmed chat id and name and the type group or
\* person; a create or update that threw left the table as it was; delete
\* returns true exactly when a row with that id was stored.
C40_RecipientsStayWellFormed ==
  /\ \A i \in Stored(recipients) : \A j \in Stored(recipients) :
       recipients[i].chatId = recipients[j].chatId => i = j
  /\ \A i \in Stored(recipients) :
       /\ recipients[i].chatId # <<>>
       /\ Trim(recipients[i].chatId) = recipients[i].chatId
       /\ recipients[i].name # <<>>
       /\ Trim(recipients[i].name) = recipients[i].name
       /\ recipients[i].type \in RecipientTypes
  /\ (lastCall.op \in {"create", "update"} /\ lastCall.threw)
       => recipients = lastCall.before
  /\ (lastCall.op = "delete" /\ ~lastCall.threw)
       => (lastCall.returned <=> lastCall.id \in Stored(lastCall.before))

(***************************************************************************)
(* Claims about the scheduler.                                             *)
(***************************************************************************)
\* C6: a firing whose first invocation failed is retried at most 3 times,
\* each retry starting at least 5 minutes after the previous invocation
\* ended; a success on retry k ends the loop with exactly k retries made,
\* and a firing that ends without success has made exactly 3 retries.
C6_BoundedRetries ==
  \A f \in 1..MaxFirings :
    /\ firing[f].retries <= 3
    /\ firing[f].calls = (IF firing[f].pc = "none" THEN 0 ELSE 1) + firing[f].retries
    /\ (firing[f].retries > 0 => firing[f].minGap >= 5)
    /\ (firing[f].pc \in {"first", "wait", "retry"} => firing[f].okAt = -1)
    /\ (firing[f].pc = "done" =>
          IF firing[f].okAt >= 0 THEN firing[f].retries = firing[f].okAt
          ELSE firing[f].retries = 3)

\* C6 witness: one firing failed four times over and stopped after its third
\* retry; another succeeded on its second retry
C6_Witness ==
  \E f, g \in 1..MaxFirings :
    /\ firing[f].pc = "done" /\ firing[f].okAt = -1 /\ firing[f].retries = 3
    /\ firing[g].pc = "done" /\ firing[g].okAt = 2 /\ firing[g].retries = 2

\* C13: once stop() was called while a firing waited between retries,
\* onExecute() is not invoked again for that firing.
C13_StopCancelsRetry ==
  [][\A f \in 1..MaxFirings :
       firing[f].stopped => firing'[f].calls = firing[f].calls]_vars

\* C14: for one firing at most one onExecute() call is in flight at any
\* time, and none while the firing waits for its next retry or has ended.
C14_OneInvocationPerFiring ==
  \A f \in 1..MaxFirings :
    /\ firing[f].inFlight <= 1
    /\ firing[f].inFlight = (IF firing[f].pc \in {"first", "retry"} THEN 1 ELSE 0)

\* C14 witness: the second retry of one firing is in flight, its earlier
\* invocations having ended, while another firing has its own call in flight
C14_Witness ==
  \E f, g \in 1..MaxFirings :
    /\ f # g
    /\ firing[f].pc = "retry" /\ firing[f].calls = 3 /\ firing[f].inFlight = 1
    /\ firing[g].inFlight = 1

\* C15: what executeNow() does after its onExecute() returned or threw is
\* what executeTask() does after the first onExecute() of a firing: end on
\* success, start the retry loop otherwise.
C15_ExecuteNowRetriesLikeFiring ==
  lastManual # "none" => ExecuteNowAfter(lastManual) = ExecuteTaskAfter(lastManual)

\* a well-formed time of day: two digits, a colon, two digits, 00..23 and
\* 00..59
WellFormedTime(time) ==
  /\ Len(time) = 5
  /\ time[3] = ":"
  /\ \A i \in {1, 2, 4, 5} : IsDigit(time[i])
  /\ 10 * DigitVal(time[1]) + DigitVal(time[2]) <= 23
  /\ 10 * DigitVal(time[4]) + DigitVal(time[5]) <= 59

\* C16: with a sendTime that is not a well-formed HH:MM, start() throws,
\* arms no cron task and leaves isRunning false.
C16_MalformedTimeFailsStart ==
  ~WellFormedTime(sendTime)
    => (~isRunning /\ ~task /\ armed = 0 /\ lastStart \in {"none", "threw"})

\* C17: start() while the scheduler is running changes nothing, so exactly
\* one cron task is armed while it runs and none while it does not.
C17_StartIdempotent ==
  /\ [](armed = IF isRunning THEN 1 ELSE 0)
  /\ [](task <=> isRunning)
  /\ [][(Start /\ isRunning)
          => UNCHANGED <<task, armed, cronExpression, isRunning, fired, firing>>]_vars

\* C17 witness: start() was called on the running scheduler, whose one
\* cron task has fired
C17_Witness ==
  /\ lastStart = "noop"
  /\ isRunning /\ task /\ armed = 1
  /\ cronExpression = [ok |-> TRUE, minute |-> 0, hour |-> 6]
  /\ fired >= 1

\* C38: every firing of the cron task ends once its onExecute() calls have
\* returned or thrown; a firing has called onExecute() at least once and at
\* most 4 times (one attempt and at most 3 retries), and exactly once when
\* the first call returned true.
C38_FiringTerminates ==
  /\ [](\A f \in 1..MaxFirings :
          /\ firing[f].pc # "none" =>
                (firing[f].calls >= 1 /\ firing[f].calls <= 1 + maxRetries)
          /\ (firing[f].pc = "done" /\ firing[f].okAt = 0) => firing[f].calls = 1)
  /\ \A f \in 1..MaxFirings : (firing[f].pc # "none") ~> (firing[f].pc = "done")

\* C38 witness: one firing ended after its first call returned true, and
\* another ended after four calls
C38_Witness ==
  \E f, g \in 1..MaxFirings :
    /\ firing[f].pc = "done" /\ firing[f].okAt = 0 /\ firing[f].calls = 1
    /\ firing[g].pc = "done" /\ firing[g].calls = 1 + maxRetries

\* C34: isRunning is true exactly when a cron task is armed, and at most
\* one is armed, whatever start() and stop() calls were made, including
\* start() calls that throw on the time of day or on the timezone; stop()
\* on a stopped scheduler changes nothing.
C34_RunningIffArmed ==
  /\ [](isRunning <=> armed >= 1)
  /\ [](armed <= 1)
  /\ [][Stop => (~isRunning' /\ ~task' /\ armed' = 0)]_vars
  /\ [][(Stop /\ ~isRunning)
          => UNCHANGED <<task, armed, cronExpression, isRunning, fired>>]_vars

\* C34 witness: start() threw on the timezone, a later start() armed the
\* task with the same configuration, and the scheduler runs
C34_Witness ==
  /\ timezone # DefaultTimezone
  /\ ConvertTimeToCron(sendTime).ok
  /\ isRunning /\ task /\ armed = 1
  /\ fired >= 1

\* the next occurrence of the configured time of day after `now`: today's
\* when `now` is before it, else tomorrow's
NextOccurrence(now, cronTime) ==
  [defined |-> TRUE,
   day |-> IF now.hour * 60 + now.minute < cronTime.hour * 60 + cronTime.minute
           THEN now.day ELSE now.day + 1,
   hour |-> cronTime.hour, minute |-> cronTime.minute]

\* C33: the nextExecution of getStatus() is the next occurrence of the
\* configured time of day after the time of the call (today's when that
\* time is still ahead, else tomorrow's), and it is there only while the
\* scheduler is running.
C33_NextIsNextOccurrence ==
  (lastStatus.asked /\ WellFormedTime(sendTime)) =>
    IF lastStatus.running
    THEN lastStatus.nextExecution
           = NextOccurrence(lastStatus.now, ConvertTimeToCron(sendTime))
    ELSE ~lastStatus.nextExecution.defined

\* C29: an exception thrown by the task callback never ends the firing
\* handler; it counts as a false result.  With a callback that only returns
\* true or throws: a throw in the first attempt starts the retry loop, a
\* throw in retry k < 3 is followed by retry k + 1, and the handler ends
\* only on a true result or after the third retry.
C29_ThrowIsFailure ==
  /\ [](\A f \in 1..MaxFirings :
          /\ firing[f].pc = "wait" =>
                /\ firing[f].okAt = -1
                /\ firing[f].attempt = firing[f].retries + 1
                /\ firing[f].attempt <= maxRetries
          /\ firing[f].pc = "done" =>
                \/ firing[f].okAt = firing[f].retries
                \/ firing[f].okAt = -1 /\ firing[f].retries = maxRetries)
  /\ [][\A f \in 1..MaxFirings :
          (/\ firing[f].pc \in {"first", "retry"}
           /\ firing'[f].pc # firing[f].pc
           /\ firing'[f].okAt = -1
           /\ firing[f].retries < maxRetries)
          => /\ firing'[f].pc = "wait"
             /\ firing'[f].attempt = firing[f].retries + 1]_vars

\* C29 witness: the first attempt and the three retries of a firing all
\* threw, and the handler returned after the third
C29_Witness ==
  \E f \in 1..MaxFirings :
    /\ firing[f].pc = "done"
    /\ firing[f].okAt = -1
    /\ firing[f].calls = maxRetries + 1
    /\ firing[f].retries = maxRetries

\* C27: on SIGINT or SIGTERM the scheduler is stopped before the session is
\* closed, and from the moment the shutdown has begun no cron firing and no
\* onExecute() call of a firing or of its retry loop is started.
C27_ShutdownStopsScheduling ==
  /\ [](shutdown.begun =>
          /\ shutdown.calls = <<"schedulerService.stop", "whatsappService.close">>
          /\ ~task /\ ~isRunning /\ armed = 0
          /\ sock = 0)
  /\ [][shutdown.begun =>
          /\ fired' = fired
          /\ \A f \in 1..MaxFirings : firing'[f].calls = firing[f].calls]_vars

\* C27 witness: the signal arrived while a firing waited for a retry and
\* the session held a connection; the scheduler is stopped, the connection
\* closed and the process has exited with the retry still pending
C27_Witness ==
  /\ shutdown.begun /\ shutdown.exited
  /\ created = 1 /\ sock = 0 /\ live = {}
  /\ \E f \in 1..MaxFirings :
       /\ firing[f].pc = "wait"
       /\ firing[f].stopped
       /\ firing[f].retries = 1

(***************************************************************************)
(* Claims about the HTTP routes.                                           *)
(***************************************************************************)
\* the request carries the header Authorization: Bearer <AUTH_TOKEN>
CarriesBearer(req) ==
  /\ TruthyStr(authToken)
  /\ req.header.present
  /\ req.header.scheme = "Bearer "
  /\ req.header.rest = authToken

\* the request presents AUTH_TOKEN, in the Authorization header or as ?token=
PresentsToken(req) ==
  /\ TruthyStr(authToken)
  /\ \/ CarriesBearer(req)
     \/ req.query = authToken

\* C24: a POST /send request that does not carry the header
\* Authorization: Bearer <AUTH_TOKEN> is answered 401 and triggers no send.
C24_SendNeedsBearer ==
  (lastRequest.route = "POST /send" /\ ~CarriesBearer(lastRequest))
    => (lastRequest.status = 401 /\ ~lastRequest.sendTriggered)

\* C25: GET /scheduler/status, POST /scheduler/start and POST
\* /scheduler/stop require AUTH_TOKEN: a request that does not present it
\* gets no scheduler status and reaches neither start() nor stop().
C25_SchedulerRoutesNeedToken ==
  (/\ lastRequest.route \in {"GET /scheduler/status", "POST /scheduler/start",
                              "POST /scheduler/stop"}
   /\ ~PresentsToken(lastRequest))
    => (~lastRequest.disclosed /\ ~lastRequest.schedulerCalled)

(***************************************************************************)
(* Claims about the session manager.                                       *)
(***************************************************************************)
\* C3: after the transport reports a close with status loggedOut, no
\* connection is made before clearAuth() of the own session has been called
\* and has ended (returned, or thrown into the catch of forceReconnect).
C3_ClearBeforeConnect ==
  [][created' > created => ~revokedPending]_vars

\* C3 witness: an open session was logged out, clearAuth() emptied the store
\* and the connection of the re-pairing has been made
C3_Witness ==
  /\ repair.phase = "connecting"
  /\ repair.sock = sock
  /\ sock \in live
  /\ ~revokedPending
  /\ dbCreds[OwnSession] = NoRow

\* C4: sendMessage() called while the session is not open returns false and
\* does not reach this.sock.sendMessage(); when it is reached and the
\* transport accepts the message, sendMessage() returns true.
C4_SendNeedsOpen ==
  /\ \A chatId \in ChatIds : \A accepts \in BOOLEAN :
       /\ ~isConnected => (~TransportInvoked(chatId) /\ ~SendResult(chatId, accepts))
       /\ (TransportInvoked(chatId) /\ accepts) => SendResult(chatId, accepts)
  /\ lastSend.called =>
       /\ ~lastSend.open => (~lastSend.invoked /\ ~lastSend.result)
       /\ lastSend.accepted => (lastSend.open /\ lastSend.result)

\* C4 witness: a send on the open session returned true, and a later one,
\* made while a connection exists that has not opened, returned false
C4_Witness ==
  /\ lastSend.called /\ lastSend.okBefore
  /\ ~lastSend.open /\ ~lastSend.invoked /\ ~lastSend.result
  /\ sock \in live /\ ~isConnected

\* C5: the session manager holds at most one live transport connection.
C5_AtMostOneLive ==
  Cardinality(live) <= 1

\* C7: isConnected turns true only while the service holds a connection it
\* made since its last close().
C7_OpenOnlyAfterConnect ==
  [][(~isConnected /\ isConnected') => sock # 0]_vars

\* C8: onQRCodeGenerated never runs while isConnected is true.
C8_NoPairingCallbackWhileOpen ==
  ~qrWhileOpen

\* C31: the current pairing artifact is the one of the latest pairing code:
\* onQRCodeGenerated runs at most once per code, the code whose image is
\* current never goes back to an earlier one, and once the latest code's
\* image was stored the current one is that image, whatever the order in
\* which the QRCode.toDataURL() calls settle.
C31_CurrentIsLatestCode ==
  /\ [](\A code \in 1..MaxQr : qrLog[code].fired <= 1)
  /\ [][currentQRCode' # 0 => currentQRCode' >= currentQRCode]_vars
  /\ []((qrGen >= 1 /\ currentQRCode # 0 /\ renders = {}
          /\ qrLog[IF qrGen >= 1 THEN qrGen ELSE 1].fired = 1)
        => currentQRCode = qrGen)

\* C39: while isConnected, DevotionalBot.currentQRCode is null (GET /health
\* gives hasQRCode = false), and once a forceReconnect() has begun it is
\* not the image of a code emitted before that forceReconnect().
C39_NoArtifactWhileOpen ==
  /\ isConnected => currentQRCode = 0
  /\ currentQRCode # 0 => ~qrLog[IF currentQRCode # 0 THEN currentQRCode ELSE 1].stale

\* C35: while isConnected the service holds a connection, and it is the one
\* that reported open: isConnected never stays true across a change of
\* this.sock, and an open or close event of a connection other than
\* this.sock leaves isConnected as it is.
C35_ConnectedMeansCurrentOpen ==
  /\ [](isConnected => sock # 0)
  /\ [][sock' # sock => ~isConnected']_vars
  /\ [][\A c \in 1..MaxSock :
          (c # sock /\ (EvOpen(c) \/ \E code \in StatusCodes : \E o \in EndOutcomes :
                                        EvClose(c, code, o)))
            => isConnected' = isConnected]_vars

\* C36: close() arms no reconnect timer, and from its return on, while
\* the service holds no connection and no forceReconnect() is under way,
\* only initialize(), reconnect() or forceReconnect() make a connection,
\* and isConnected stays false.
C36_CloseStaysClosed ==
  /\ [][(\E o \in EndOutcomes : Close(o)) => timers' <= timers]_vars
  /\ [][(/\ sock = 0 /\ clearing = <<>> /\ settling = 0
         /\ ~(Initialize \/ \E o \in EndOutcomes : Reconnect(o) \/ ForceReconnect(o)))
          => (created' = created /\ ~isConnected')]_vars

\* C32: every close event whose status code is not loggedOut arms one
\* reconnect timer and makes no connection itself, and every pending
\* reconnect timer is followed by a connect attempt, whatever the number
\* of connections made and lost before.
C32_DropIsFollowedByConnect ==
  /\ [][\A c \in 1..MaxConn : \A code \in StatusCodes \ {"loggedOut"} :
          \A o \in EndOutcomes :
            EvClose(c, code, o) => (timers' = timers + 1 /\ created' = created)]_vars
  /\ \A k \in 0..MaxConn :
       (timers > 0 /\ created = k) ~> (created > k /\ madeBy = "timer")

\* C32 witness: the connection made by a reconnect timer dropped as well,
\* and the timer armed by that drop has made the next connection
C32_Witness ==
  /\ created = 3 /\ sock = 3 /\ live = {3}
  /\ madeBy = "timer"
  /\ timers = 0

\* C9: once an open session is logged out, the service is disconnected
\* and holds no connection until it connects anew, and from the clearAuth()
\* that succeeded until the new connection saves its creds, the store holds
\* no creds row and no key row of the own session.
C9_EmptyUntilNewConnectionWrites ==
  /\ repair.phase \in {"closed", "cleared"} => (sock = 0 /\ ~isConnected)
  /\ repair.phase \in {"cleared", "connecting"} =>
       /\ dbCreds[OwnSession] = NoRow
       /\ \A k \in AllKeyIds : dbKeys[OwnSession][k] = NoRow

\* C10: clearAuth() is called only by forceReconnect(), which only the
\* operator or a loggedOut close starts; no other step removes a row of the
\* own session; a close that arms the reconnect timer leaves the store as it
\* is, and the connection the timer makes is made from the stored creds.
C10_OnlyForcedRepairClears ==
  /\ [](\A i \in 1..Len(clearing) : clearing[i] \in {"operator", "loggedOut"})
  /\ [][((dbCreds[OwnSession] # NoRow /\ dbCreds'[OwnSession] = NoRow)
          \/ \E k \in AllKeyIds : (dbKeys[OwnSession][k] # NoRow
                                    /\ dbKeys'[OwnSession][k] = NoRow))
         => clearing # <<>>]_vars
  /\ [][timers' > timers => UNCHANGED dbVars]_vars
  /\ [][timers' < timers =>
          /\ UNCHANGED dbVars
          /\ sock' \in live'
          /\ sockCreds'[sock'] = LoadCreds(dbCreds, OwnSession).creds]_vars

\* C10 witness: a paired session lost its connection for a reason other than
\* loggedOut, and the connection made by the reconnect timer carries the
\* creds that are still stored
C10_Witness ==
  /\ madeBy = "timer"
  /\ created = 2 /\ sock = 2 /\ live = {2}
  /\ timers = 0 /\ settling = 0 /\ clearing = <<>>
  /\ dbCreds[OwnSession] = Stringify("c2")
  /\ sockCreds[2] = "c2"
  /\ \E k \in AllKeyIds : dbKeys[OwnSession][k] # NoRow

\* C23: forceReconnect() goes through the forced re-pairing in order,
\* whatever the connection state: its close() comes first, takes this.sock
\* down (unless sock.end() throws), leaves sock = null and makes no
\* connection; its clearAuth() runs next (both DELETEs, or up
\* to the one that throws into the catch) and makes no connection; the
\* connect attempt comes only out of the settle delay, which only a finished
\* clear step starts.
C23_ForceReconnectInOrder ==
  /\ [][Len(clearing') > Len(clearing)
          => /\ sock' = 0
             /\ live' \subseteq live
             /\ created' = created
             /\ UNCHANGED <<dbCreds, dbKeys, settling>>]_vars
  /\ [][settling' > settling
          => /\ clearing # <<>> /\ clearing' = Tail(clearing)
             /\ created' = created /\ sock' = sock
             /\ \E failAt \in 0..2 :
                  /\ dbCreds' = ClearAuthCreds(dbCreds, OwnSession, failAt)
                  /\ dbKeys' = ClearAuthKeys(dbKeys, OwnSession, failAt)]_vars
  /\ [][settling' < settling
          => /\ clearing = <<>>
             /\ created' = created + 1
             /\ sock' = created' /\ sock' \in live'
             /\ sockCreds'[sock'] = LoadCreds(dbCreds, OwnSession).creds]_vars
  /\ [](settling >= 0 /\ (clearing # <<>> => sock = 0))

\* C23 witness: forceReconnect() was called on a session that held a
\* connection made from stored creds; that connection is down, the store is
\* empty and the connection made after the settle delay stands, made from
\* fresh creds
C23_Witness ==
  /\ madeBy = "forceReconnect"
  /\ repair = NoRepair
  /\ created = 2 /\ sock = 2 /\ live = {2}
  /\ sockCreds[2] = FreshCreds
  /\ settling = 0 /\ clearing = <<>>
  /\ dbCreds[OwnSession] = NoRow
  /\ \A k \in AllKeyIds : dbKeys[OwnSession][k] = NoRow

\* C28: close() succeeds from every connection state: whatever sock.end()
\* does, on return the service holds no connection (sock = null) and reports
\* not connected.
C28_CloseLeavesDisconnected ==
  Settled =>
    \A o \in EndOutcomes :
      /\ CloseSock(Sess, o).sock = 0
      /\ ~CloseSock(Sess, o).isConnected

C11_InitializeIdempotent ==
  [][(Initialize /\ sock \in live)
       => (created' = created /\ live' = live /\ sock' = sock
           /\ isConnected' = isConnected)]_vars

\* C12: a reconnect timer that was pending when close() was called makes no
\* connection when it runs out.
C12_CloseCancelsReconnectTimer ==
  [][(timers' < timers /\ staleTimers > 0) => created' = created]_vars

\* the number of sends in a list of results that returned true
RECURSIVE CountTrue(_)
CountTrue(results) ==
  IF results = <<>> THEN 0
  ELSE (IF Head(results) THEN 1 ELSE 0) + CountTrue(Tail(results))

\* C18: sendToAll() starts its sends in list order, one at a time, each
\* after the one before has returned; it goes on after a send that returned
\* false, and its counts add up to the number of chat ids, success being
\* the number of sends that returned true.
C18_SequentialFanout ==
  /\ fanout.started = SubSeq(fanout.dests, 1, Len(fanout.started))
  /\ Len(fanout.started) - Len(fanout.results)
       = (IF fanout.pc = "sending" THEN 1 ELSE 0)
  /\ fanout.success = CountTrue(fanout.results)
  /\ fanout.success + fanout.failures = Len(fanout.results)
  /\ fanout.pc = "done" => Len(fanout.results) = Len(fanout.dests)

\* C18 witness: a sendToAll() over two chat ids has returned; the first
\* send returned false, the second true
C18_Witness ==
  /\ fanout.pc = "done"
  /\ Len(fanout.dests) = 2
  /\ fanout.results = <<FALSE, TRUE>>
  /\ fanout.success = 1 /\ fanout.failures = 1

\* C19: sendMessage() never throws; when this.sock.sendMessage() fails on the
\* open session it returns false having called the transport once, and no
\* sendMessage() call changes the connection or the store.
C19_SendFailureIsFalse ==
  /\ [](lastSend.called => lastSend.completion = "returned")
  /\ []((lastSend.called /\ lastSend.invoked /\ ~lastSend.accepted)
          => (~lastSend.result /\ lastSend.transportCalls = 1))
  /\ [][lastSend' # lastSend => UNCHANGED <<connVars, dbVars>>]_vars

\* C19 witness: the transport refused a message on the open session; the
\* send returned false and the session is still open
C19_Witness ==
  /\ lastSend.called /\ lastSend.open /\ lastSend.invoked
  /\ ~lastSend.accepted /\ ~lastSend.result
  /\ lastSend.completion = "returned" /\ lastSend.transportCalls = 1
  /\ isConnected /\ sock \in live

====
